---- MODULE Spec2Model ----
(***************************************************************************)
(* Model of the CodeSage AI service core:                                  *)
(*   - app/services/embedding_service.py  (EmbeddingService)               *)
(*   - utils/diff_analyzer.py             (DiffAnalyzer)                   *)
(* Python strings are sequences of one-character strings, so that          *)
(* prefix tests, concatenation, regular-expression matching and sorting    *)
(* are computed on the characters as the code computes them.               *)
(***************************************************************************)
EXTENDS Integers, Sequences, FiniteSets, TLC

VARIABLES
    gemini_service,   \* EmbeddingService.gemini_service is set (a provider is attached)
    cache_service,    \* EmbeddingService.cache_service is set (a cache is attached)
    cache,            \* contents of the key/value cache: key -> [value, ttl]
    last,             \* record of the last completed EmbeddingService call
    diff_text,        \* the diff under analysis, as diff_text.split('\n')
    chunks,           \* result of parse_diff(diff_text), or NoResult
    changed_files,    \* result of get_changed_files(diff_text), or NoResult
    line_ranges,      \* result of get_changed_line_ranges(diff_text, file), or NoResult
    collection,       \* RAGService.collection: the entries of the vector index
    rag_last,         \* record of the last completed RAGService call
    pattern_ids,      \* the ids store_pattern has returned, with what they were returned for
    pd_last,          \* record of the last completed PatternDetector call
    code_files,       \* result of filter_code_files(file_paths), or NoResult
    random_state,     \* state of the process-wide generator of the random module
    dummy_calls,      \* the _generate_dummy_embedding call of every caller: where it is, its locals
    dummy_log,        \* what the completed _generate_dummy_embedding calls returned, in order
    find_call,        \* the find_similar_patterns call that runs while other callers store: where it is, its locals
    clock,            \* time.time(), in ticks of half a second
    last_request_time,\* GeminiService.last_request_time, 0 before the first request
    request_count,    \* GeminiService.request_count
    analyze_calls,    \* the analyze_code call of every caller: where it is, when its sleep ends
    requests,         \* the times at which model.generate_content was called, in order
    embed_calls       \* the EmbeddingService call of every thread: where it is, its locals

embed_vars == <<gemini_service, cache_service, cache, last>>
diff_vars == <<diff_text, chunks, changed_files, line_ranges>>
rag_vars == <<collection, rag_last, pattern_ids>>
vars == <<gemini_service, cache_service, cache, last,
          diff_text, chunks, changed_files, line_ranges,
          collection, rag_last, pattern_ids, pd_last, code_files,
          random_state, dummy_calls, dummy_log,
          find_call,
          clock, last_request_time, request_count, analyze_calls, requests,
          embed_calls>>

\* what the calls of one component leave alone: the other components
dummy_vars == <<random_state, dummy_calls, dummy_log>>
threads_vars == <<embed_calls>>
gemini_vars == <<clock, last_request_time, request_count, analyze_calls, requests>>
find_vars == <<find_call>>
outside_embed == <<diff_vars, rag_vars, pd_last, code_files, dummy_vars, find_vars, gemini_vars, threads_vars>>
outside_diff == <<embed_vars, rag_vars, pd_last, code_files, dummy_vars, find_vars, gemini_vars, threads_vars>>
outside_rag == <<embed_vars, diff_vars, pd_last, code_files, dummy_vars, find_vars, gemini_vars, threads_vars>>
outside_pattern == <<embed_vars, diff_vars, rag_vars, code_files, dummy_vars, find_vars, gemini_vars, threads_vars>>
outside_files == <<embed_vars, diff_vars, rag_vars, pd_last, dummy_vars, find_vars, gemini_vars, threads_vars>>
outside_dummy == <<embed_vars, diff_vars, rag_vars, pd_last, code_files, find_vars, gemini_vars, threads_vars>>
outside_threads == <<diff_vars, rag_vars, pd_last, code_files, dummy_vars, find_vars, gemini_vars>>
outside_gemini == <<embed_vars, diff_vars, rag_vars, pd_last, code_files, dummy_vars, find_vars, threads_vars>>
outside_find == <<embed_vars, diff_vars, rag_vars, pd_last, code_files, dummy_vars, gemini_vars, threads_vars>>

(***************************************************************************)
(* Python values                                                           *)
(***************************************************************************)
\* Optional[...]: None, or a value
None == [some |-> FALSE, val |-> <<>>]
Some(v) == [some |-> TRUE, val |-> v]

\* truthiness of an Optional[List[float]]: None and [] are falsy
Truthy(e) == e.some /\ Len(e.val) > 0

\* str.strip() removes leading and trailing whitespace
Whitespace == {" ", "\t", "\n", "\r"}

\* ord(c) for the characters the model uses
Ord(c) ==
    CASE c = "\t" -> 9
      [] c = "\n" -> 10
      [] c = "\r" -> 13
      [] c = " " -> 32
      [] c = "+" -> 43
      [] c = "," -> 44
      [] c = "-" -> 45
      [] c = "/" -> 47
      [] c = "0" -> 48
      [] c = "1" -> 49
      [] c = "2" -> 50
      [] c = "3" -> 51
      [] c = "4" -> 52
      [] c = "5" -> 53
      [] c = "6" -> 54
      [] c = "7" -> 55
      [] c = "8" -> 56
      [] c = "9" -> 57
      [] c = ":" -> 58
      [] c = "@" -> 64
      [] c = "a" -> 97
      [] c = "b" -> 98
      [] c = "x" -> 120
      [] c = "y" -> 121

RECURSIVE SeqMin(_, _)
\* helper of Strip: index of the first non-whitespace character from i, or Len+1
SeqMin(s, i) ==
    IF i > Len(s) THEN i
    ELSE IF s[i] \in Whitespace THEN SeqMin(s, i + 1) ELSE i

RECURSIVE SeqMax(_, _)
\* helper of Strip: index of the last non-whitespace character up to i, or 0
SeqMax(s, i) ==
    IF i < 1 THEN 0
    ELSE IF s[i] \in Whitespace THEN SeqMax(s, i - 1) ELSE i

\* text.strip()
Strip(s) == SubSeq(s, SeqMin(s, 1), SeqMax(s, Len(s)))

(***************************************************************************)
(* EmbeddingService                                                        *)
(***************************************************************************)
\* the two task types the service passes (embed_code_snippet, embed_search_query)
retrieval_document ==
    <<"r","e","t","r","i","e","v","a","l","_","d","o","c","u","m","e","n","t">>
retrieval_query ==
    <<"r","e","t","r","i","e","v","a","l","_","q","u","e","r","y">>
TaskTypes == {retrieval_document, retrieval_query}

\* texts handed to the service: empty, whitespace-only, and non-blank ones
\* (one with leading whitespace, which strip() removes only for the test)
Texts == { <<>>, <<" ", "\t">>, <<"a">>, <<" ", "b">> }

\* vectors the provider can return: [] and two non-empty ones
ProviderVectors == { <<>>, <<1>>, <<2>> }

\* longest list handed to generate_embeddings_batch
MaxBatch == 2

\* cache TTL passed to set_embedding
CacheTtl == 86400

\* `if not text or not text.strip()`
\* (variant: only `if not text`)
IsBlank_NoStrip(text) == Len(text) = 0
IsBlank(text) == Len(text) = 0 \/ Len(Strip(text)) = 0

\* hashlib.sha256(content).hexdigest(): modelled as collision-free, the digest
\* stands for the content it was computed from
Sha256Hex(content) == <<"sha256", content>>

\* _generate_cache_key: content = f"{task_type}:{text}"
\* (variant: the task type left out of the content)
generate_cache_key_TextOnly(text, task_type) == Sha256Hex(text)
generate_cache_key(text, task_type) == Sha256Hex(task_type \o <<":">> \o text)

\* cache_service.get_embedding(key): the stored vector, or None
get_embedding(c, key) ==
    IF key \in DOMAIN c THEN Some(c[key].value) ELSE None

\* cache_service.set_embedding(key, embedding, ttl)
set_embedding(c, key, embedding, ttl) ==
    [k \in (DOMAIN c) \cup {key} |->
        IF k = key THEN [value |-> embedding, ttl |-> ttl] ELSE c[k]]

(***************************************************************************)
(* _generate_dummy_embedding                                               *)
(***************************************************************************)
\* default of the `dimensions` parameter
Dimensions == 768

RECURSIVE Md5Int(_, _)
\* int(hashlib.md5(text.encode()).hexdigest(), 16): a positional encoding of
\* the characters, collision-free on the texts of the model (acc: value so far)
Md5Int(text, acc) ==
    IF Len(text) = 0 THEN acc
    ELSE Md5Int(Tail(text), (acc * 128 + Ord(Head(text))) % 1000003)

\* random.seed(hash_val): the state of the process-wide generator after
\* seeding (the generator is a linear congruential one, modulo 1024)
RandomSeed(hash_val) == hash_val % 1024

RECURSIVE RandomPow(_)
\* 421^n modulo 1024
RandomPow(n) ==
    IF n = 0 THEN 1
    ELSE IF n % 2 = 0 THEN (RandomPow(n \div 2) * RandomPow(n \div 2)) % 1024
    ELSE (421 * RandomPow(n - 1)) % 1024

RECURSIVE RandomGeom(_)
\* 1 + 421 + ... + 421^(n-1) modulo 1024
RandomGeom(n) ==
    IF n = 0 THEN 0
    ELSE IF n % 2 = 0 THEN (RandomGeom(n \div 2) * (1 + RandomPow(n \div 2))) % 1024
    ELSE (1 + 421 * RandomGeom(n - 1)) % 1024

\* the generator's state after n draws from `state`: n times
\* state := (421 * state + 1) % 1024
RandomNext(state, n) == (RandomPow(n) * state + RandomGeom(n)) % 1024

\* random.uniform(-1, 1) as drawn in generator state `state`; floats are
\* kept in fixed point, in thousandths
RandomUniform(state) == (2000 * state) \div 1024 - 1000

\* [random.uniform(-1, 1) for _ in range(n)] from generator state `state`
RandomDraws(state, n) ==
    [i \in 1..n |-> RandomUniform(RandomNext(state, i))]

RECURSIVE SumSquares(_, _, _)
\* sum(x**2 for x in embedding[lo..hi]), in hundredths of the fixed-point
\* unit squared
SumSquares(v, lo, hi) ==
    IF lo > hi THEN 0
    ELSE IF lo = hi THEN (v[lo] * v[lo]) \div 100
    ELSE SumSquares(v, lo, (lo + hi) \div 2)
             + SumSquares(v, (lo + hi) \div 2 + 1, hi)

\* s ** 0.5 on the integers
ISqrt(s) == CHOOSE r \in 0..30000 : r * r <= s /\ s < (r + 1) * (r + 1)

\* lines 240-243: the embedding scaled to unit length
Normalized(embedding) ==
    LET magnitude == ISqrt(SumSquares(embedding, 1, Len(embedding))) * 10
    IN  IF magnitude > 0
        THEN [i \in 1..Len(embedding) |->
                 (embedding[i] * 1000) \div magnitude]
        ELSE embedding

\* _generate_dummy_embedding(text, dimensions), run from seeding to return
\* with no other use of the generator in between
generate_dummy_embedding(text, dimensions) ==
    LET hash_val == Md5Int(text, 0)
        embedding == RandomDraws(RandomSeed(hash_val), dimensions)
    IN  Normalized(embedding)

\* (variant: the call draws from the generator as it finds it)
Seeded_Not(state, hash_val) == state

\* line 236: the process-wide generator after random.seed(hash_val), whatever
\* state it was in
Seeded(state, hash_val) == RandomSeed(hash_val)

\* the fallback vector of every text of the model, computed once
DummyEmbeddings == [t \in Texts |-> generate_dummy_embedding(t, Dimensions)]

(***************************************************************************)
(* generate_embedding                                                      *)
(***************************************************************************)
\* self.embedding_model
embedding_model == "models/embedding-001"

\* what the provider does with one call: it raises, or it returns a vector
ProviderOutcomes ==
    {[raises |-> TRUE, value |-> <<>>]}
        \cup {[raises |-> FALSE, value |-> v] : v \in ProviderVectors}

\* the outcome of running a piece of a service call on cache contents c:
\* the value it returns (result for one text, results for a batch), whether an
\* exception is propagating, the collaborator calls it made, the cache after
Outcome(result, results, raised, provider_calls, cache_reads, cache_writes, c) ==
    [result |-> result, results |-> results, raised |-> raised,
     provider_calls |-> provider_calls, cache_reads |-> cache_reads,
     cache_writes |-> cache_writes, cache |-> c]

\* gemini_service.generate_embedding(text=, model=, task_type=), with what
\* the provider answered: it raised, or it returned the vectors `returned`
ProviderCall(text, task_type, outcome) ==
    <<[method |-> "generate_embedding", texts |-> <<text>>,
       model |-> embedding_model, task_type |-> task_type,
       raises |-> outcome.raises,
       returned |-> IF outcome.raises THEN <<>> ELSE <<outcome.value>>]>>

\* `if self.cache_service and embedding`
\* (variant: the result is never cached)
ShouldCache_Never(cs, embedding) == FALSE
ShouldCache(cs, embedding) == cs /\ Truthy(embedding)

\* the try block of generate_embedding
EmbedTry(text, task_type, cache_key, gem, cs, c, outcome, reads) ==
    LET calls == IF gem THEN ProviderCall(text, task_type, outcome) ELSE <<>>
        embedding == IF gem THEN Some(outcome.value)
                     ELSE Some(DummyEmbeddings[text])
    IN  IF gem /\ outcome.raises
        THEN Outcome(None, <<>>, TRUE, calls, reads, <<>>, c)
        ELSE IF ShouldCache(cs, embedding)
        THEN Outcome(embedding, <<>>, FALSE, calls, reads,
                     <<[key |-> cache_key, value |-> embedding.val, ttl |-> CacheTtl]>>,
                     set_embedding(c, cache_key, embedding.val, CacheTtl))
        ELSE Outcome(embedding, <<>>, FALSE, calls, reads, <<>>, c)

\* `except Exception as e: ... return None`
\* (variant: the exception is passed on)
EmbedExcept_Reraise(r) == r
EmbedExcept(r) ==
    IF r.raised THEN [r EXCEPT !.raised = FALSE, !.result = None] ELSE r

\* generate_embedding(text, task_type) of a service with provider `gem` and
\* cache `cs` attached or not, on cache contents c, the provider answering
\* with `outcome` if it is called
generate_embedding(text, task_type, gem, cs, c, outcome) ==
    IF IsBlank(text)
    THEN Outcome(None, <<>>, FALSE, <<>>, <<>>, <<>>, c)
    ELSE LET cache_key == generate_cache_key(text, task_type)
             cached == IF cs THEN get_embedding(c, cache_key) ELSE None
             reads == IF cs THEN <<cache_key>> ELSE <<>>
         IN  IF cs /\ Truthy(cached)
             THEN Outcome(cached, <<>>, FALSE, <<>>, reads, <<>>, c)
             ELSE EmbedExcept(
                      EmbedTry(text, task_type, cache_key, gem, cs, c, outcome, reads))

(***************************************************************************)
(* generate_embeddings_batch                                               *)
(***************************************************************************)
RECURSIVE BatchScan(_, _, _, _, _, _)
\* the first loop: `for i, text in enumerate(texts)`, from index i on, with
\* acc = [embeddings, uncached_indices, uncached_texts, reads]
BatchScan(texts, task_type, cs, c, i, acc) ==
    IF i > Len(texts) THEN acc
    ELSE LET text == texts[i]
             cache_key == generate_cache_key(text, task_type)
             cached == IF cs THEN get_embedding(c, cache_key) ELSE None
         IN  IF IsBlank(text)
             THEN BatchScan(texts, task_type, cs, c, i + 1,
                      [acc EXCEPT !.embeddings = Append(@, None)])
             ELSE IF cs /\ Truthy(cached)
             THEN BatchScan(texts, task_type, cs, c, i + 1,
                      [acc EXCEPT !.embeddings = Append(@, cached),
                                  !.reads = Append(@, cache_key)])
             ELSE BatchScan(texts, task_type, cs, c, i + 1,
                      [acc EXCEPT !.embeddings = Append(@, None),
                                  !.uncached_indices = Append(@, i),
                                  !.uncached_texts = Append(@, text),
                                  !.reads = IF cs THEN Append(@, cache_key) ELSE @])

\* gemini_service.generate_embeddings_batch(texts=, model=, task_type=)
\* (variant: one generate_embedding call per uncached text)
ProviderBatchCall_PerText(uncached_texts, task_type, outcome) ==
    [j \in 1..Len(uncached_texts) |->
        [method |-> "generate_embedding", texts |-> <<uncached_texts[j]>>,
         model |-> embedding_model, task_type |-> task_type,
         raises |-> outcome.raises,
         returned |-> IF outcome.raises THEN <<>> ELSE <<outcome.values[j]>>]]
ProviderBatchCall(uncached_texts, task_type, outcome) ==
    <<[method |-> "generate_embeddings_batch", texts |-> uncached_texts,
       model |-> embedding_model, task_type |-> task_type,
       raises |-> outcome.raises,
       returned |-> IF outcome.raises THEN <<>> ELSE outcome.values]>>

\* what the provider does with one batched call for n texts
ProviderBatchOutcomes(n) ==
    {[raises |-> TRUE, values |-> <<>>]}
        \cup {[raises |-> FALSE, values |-> vs] : vs \in [1..n -> ProviderVectors]}

\* zip(uncached_indices, batch_embeddings): pairs up to the shorter length
\* (variant: the vectors paired in reverse order)
Zip_Reversed(uncached_indices, batch_embeddings) ==
    LET n == IF Len(uncached_indices) < Len(batch_embeddings)
             THEN Len(uncached_indices) ELSE Len(batch_embeddings)
    IN  [j \in 1..n |-> <<uncached_indices[j], batch_embeddings[n + 1 - j]>>]
Zip(uncached_indices, batch_embeddings) ==
    LET n == IF Len(uncached_indices) < Len(batch_embeddings)
             THEN Len(uncached_indices) ELSE Len(batch_embeddings)
    IN  [j \in 1..n |-> <<uncached_indices[j], batch_embeddings[j]>>]

RECURSIVE BatchFill(_, _, _, _, _, _)
\* the second loop: `for idx, embedding in zip(...)`, from pair j on, with
\* acc = [embeddings, writes, cache]
BatchFill(texts, task_type, cs, pairs, j, acc) ==
    IF j > Len(pairs) THEN acc
    ELSE LET idx == pairs[j][1]
             embedding == Some(pairs[j][2])
             cache_key == generate_cache_key(texts[idx], task_type)
             filled == [acc EXCEPT !.embeddings[idx] = embedding]
         IN  IF ShouldCache(cs, embedding)
             THEN BatchFill(texts, task_type, cs, pairs, j + 1,
                      [filled EXCEPT
                          !.writes = Append(@, [key |-> cache_key,
                                                value |-> embedding.val,
                                                ttl |-> CacheTtl]),
                          !.cache = set_embedding(@, cache_key, embedding.val, CacheTtl)])
             ELSE BatchFill(texts, task_type, cs, pairs, j + 1, filled)

\* the try block of generate_embeddings_batch, after the scan of the cache
BatchTry(texts, task_type, gem, cs, c, outcome, scan) ==
    LET calls == IF gem THEN ProviderBatchCall(scan.uncached_texts, task_type, outcome)
                 ELSE <<>>
        batch_embeddings ==
            IF gem THEN outcome.values
            ELSE [j \in 1..Len(scan.uncached_texts) |->
                     DummyEmbeddings[scan.uncached_texts[j]]]
        fill == BatchFill(texts, task_type, cs,
                    Zip(scan.uncached_indices, batch_embeddings), 1,
                    [embeddings |-> scan.embeddings, writes |-> <<>>, cache |-> c])
    IN  IF gem /\ outcome.raises
        THEN Outcome(None, scan.embeddings, TRUE, calls, scan.reads, <<>>, c)
        ELSE Outcome(None, fill.embeddings, FALSE, calls, scan.reads,
                     fill.writes, fill.cache)

\* `except Exception as e:` of generate_embeddings_batch: every uncached
\* slot that is None is set to None
\* (variant: the exception is passed on)
BatchExcept_Reraise(r, uncached_indices) == r
BatchExcept(r, uncached_indices) ==
    IF r.raised
    THEN [r EXCEPT !.raised = FALSE,
                   !.results = [i \in 1..Len(r.results) |->
                       IF (\E k \in 1..Len(uncached_indices) : uncached_indices[k] = i)
                              /\ r.results[i] = None
                       THEN None ELSE r.results[i]]]
    ELSE r

\* generate_embeddings_batch(texts, task_type), the provider answering the
\* batched call with `outcome` if it is made
generate_embeddings_batch(texts, task_type, gem, cs, c, outcome) ==
    IF Len(texts) = 0
    THEN Outcome(None, <<>>, FALSE, <<>>, <<>>, <<>>, c)
    ELSE LET scan == BatchScan(texts, task_type, cs, c, 1,
                         [embeddings |-> <<>>, uncached_indices |-> <<>>,
                          uncached_texts |-> <<>>, reads |-> <<>>])
         IN  IF Len(scan.uncached_texts) = 0
             THEN Outcome(None, scan.embeddings, FALSE, <<>>, scan.reads, <<>>, c)
             ELSE BatchExcept(
                      BatchTry(texts, task_type, gem, cs, c, outcome, scan),
                      scan.uncached_indices)

(***************************************************************************)
(* DiffAnalyzer: regular expressions                                       *)
(***************************************************************************)
\* s has p at index i: s[i : i + len(p)] == p
HasAt(s, i, p) ==
    /\ i >= 1
    /\ i + Len(p) - 1 <= Len(s)
    /\ SubSeq(s, i, i + Len(p) - 1) = p

\* line.startswith(p)
StartsWith(s, p) == HasAt(s, 1, p)

\* \d
IsDigit(c) == c \in {"0", "1", "2", "3", "4", "5", "6", "7", "8", "9"}

RECURSIVE DigitsEnd(_, _)
\* \d+ from index i, greedy: the index after the last digit (i if none)
DigitsEnd(s, i) ==
    IF i <= Len(s) /\ IsDigit(s[i]) THEN DigitsEnd(s, i + 1) ELSE i

RECURSIVE ToInt(_, _)
\* int(digits), acc the value of the digits read so far
ToInt(digits, acc) ==
    IF Len(digits) = 0 THEN acc
    ELSE ToInt(Tail(digits), acc * 10 + (Ord(Head(digits)) - 48))

\* new_file_pattern = r'^\+\+\+ b/(.*)$' matched on a line: group(1), or None
new_file_pattern(line) ==
    IF StartsWith(line, <<"+", "+", "+", " ", "b", "/">>)
    THEN Some(SubSeq(line, 7, Len(line)))
    ELSE None

\* chunk_header_pattern = r'^@@ -(\d+)(?:,(\d+))? \+(\d+)(?:,(\d+))? @@'
\* matched on a line: whether it matches, and its four groups (group 2 and
\* group 4 are None when the optional part is absent)
chunk_header_pattern(line) ==
    LET e1 == DigitsEnd(line, 5)
        has2 == HasAt(line, e1, <<",">>) /\ DigitsEnd(line, e1 + 1) > e1 + 1
        e2 == IF has2 THEN DigitsEnd(line, e1 + 1) ELSE e1
        s3 == e2 + 2
        e3 == DigitsEnd(line, s3)
        has4 == HasAt(line, e3, <<",">>) /\ DigitsEnd(line, e3 + 1) > e3 + 1
        e4 == IF has4 THEN DigitsEnd(line, e3 + 1) ELSE e3
        matched ==
            /\ StartsWith(line, <<"@", "@", " ", "-">>)
            /\ e1 > 5
            /\ HasAt(line, e2, <<" ", "+">>)
            /\ e3 > s3
            /\ HasAt(line, e4, <<" ", "@", "@">>)
    IN  IF matched
        THEN [matched |-> TRUE,
              group1 |-> Some(SubSeq(line, 5, e1 - 1)),
              group2 |-> IF has2 THEN Some(SubSeq(line, e1 + 1, e2 - 1)) ELSE None,
              group3 |-> Some(SubSeq(line, s3, e3 - 1)),
              group4 |-> IF has4 THEN Some(SubSeq(line, e3 + 1, e4 - 1)) ELSE None]
        ELSE [matched |-> FALSE, group1 |-> None, group2 |-> None,
              group3 |-> None, group4 |-> None]

(***************************************************************************)
(* DiffAnalyzer.parse_diff                                                 *)
(***************************************************************************)
\* DiffChunk(file_path, old_start, old_count, new_start, new_count)
DiffChunk(file_path, old_start, old_count, new_start, new_count) ==
    [file_path |-> file_path, old_start |-> old_start, old_count |-> old_count,
     new_start |-> new_start, new_count |-> new_count,
     added_lines |-> <<>>, removed_lines |-> <<>>, context_lines |-> <<>>]

\* the locals of parse_diff before the loop
ParseStart ==
    [chunks |-> <<>>, current_file |-> None, current_chunk |-> None,
     old_line |-> 0, new_line |-> 0]

\* the count of a hunk header: `int(group) if group else 1`
\* (variant: an omitted count taken as 0)
HeaderCount_DefaultZero(group) == IF group.some THEN ToInt(group.val, 0) ELSE 0
HeaderCount(group) == IF group.some THEN ToInt(group.val, 0) ELSE 1

\* `current_file or ''`
FileOrEmpty(current_file) == IF current_file.some THEN current_file.val ELSE <<>>

\* the body of the loop for a line that matched the hunk header pattern
ParseChunkHeader(st, m) ==
    LET old_start == ToInt(m.group1.val, 0)
        old_count == HeaderCount(m.group2)
        new_start == ToInt(m.group3.val, 0)
        new_count == HeaderCount(m.group4)
    IN  [chunks |-> IF st.current_chunk.some
                    THEN Append(st.chunks, st.current_chunk.val)
                    ELSE st.chunks,
         current_file |-> st.current_file,
         current_chunk |-> Some(DiffChunk(FileOrEmpty(st.current_file),
                                          old_start, old_count,
                                          new_start, new_count)),
         old_line |-> old_start,
         new_line |-> new_start]

\* (variant: a context line advances the old-line counter only)
ParseChunkLine_ContextKeepsNew(st, line) ==
    LET content == Tail(line)
        chunk == st.current_chunk.val
    IN  IF StartsWith(line, <<"+">>) /\ ~StartsWith(line, <<"+", "+", "+">>)
        THEN [st EXCEPT
                 !.current_chunk = Some([chunk EXCEPT !.added_lines =
                                       Append(@, <<st.new_line, content>>)]),
                 !.new_line = @ + 1]
        ELSE IF StartsWith(line, <<"-">>) /\ ~StartsWith(line, <<"-", "-", "-">>)
        THEN [st EXCEPT
                 !.current_chunk = Some([chunk EXCEPT !.removed_lines =
                                       Append(@, <<st.old_line, content>>)]),
                 !.old_line = @ + 1]
        ELSE IF StartsWith(line, <<" ">>)
        THEN [st EXCEPT
                 !.current_chunk = Some([chunk EXCEPT !.context_lines =
                                       Append(@, <<st.new_line, content>>)]),
                 !.old_line = @ + 1]
        ELSE st

\* the body of the loop for a line of an open chunk: added, removed, context
ParseChunkLine(st, line) ==
    LET content == Tail(line)
        chunk == st.current_chunk.val
    IN  IF StartsWith(line, <<"+">>) /\ ~StartsWith(line, <<"+", "+", "+">>)
        THEN [st EXCEPT
                 !.current_chunk = Some([chunk EXCEPT !.added_lines =
                                       Append(@, <<st.new_line, content>>)]),
                 !.new_line = @ + 1]
        ELSE IF StartsWith(line, <<"-">>) /\ ~StartsWith(line, <<"-", "-", "-">>)
        THEN [st EXCEPT
                 !.current_chunk = Some([chunk EXCEPT !.removed_lines =
                                       Append(@, <<st.old_line, content>>)]),
                 !.old_line = @ + 1]
        ELSE IF StartsWith(line, <<" ">>)
        THEN [st EXCEPT
                 !.current_chunk = Some([chunk EXCEPT !.context_lines =
                                       Append(@, <<st.new_line, content>>)]),
                 !.old_line = @ + 1,
                 !.new_line = @ + 1]
        ELSE st

\* one iteration of `for line in diff_text.split('\n')`
ParseLine(st, line) ==
    IF new_file_pattern(line).some
    THEN [st EXCEPT !.current_file = new_file_pattern(line)]
    ELSE IF chunk_header_pattern(line).matched
    THEN ParseChunkHeader(st, chunk_header_pattern(line))
    ELSE IF ~st.current_chunk.some
    THEN st
    ELSE ParseChunkLine(st, line)

RECURSIVE ParseLoop(_, _, _)
\* the loop of parse_diff from line i on
ParseLoop(lines, i, st) ==
    IF i > Len(lines) THEN st
    ELSE ParseLoop(lines, i + 1, ParseLine(st, lines[i]))

\* (variant: the chunk open at the end of the input is not appended)
parse_diff_DropLast(lines) == ParseLoop(lines, 1, ParseStart).chunks

\* parse_diff(diff_text), lines being diff_text.split('\n')
parse_diff(lines) ==
    LET st == ParseLoop(lines, 1, ParseStart)
    IN  IF st.current_chunk.some
        THEN Append(st.chunks, st.current_chunk.val)
        ELSE st.chunks

(***************************************************************************)
(* DiffAnalyzer.get_changed_files, get_changed_line_ranges                 *)
(***************************************************************************)
RECURSIVE StrLess(_, _)
\* a < b on str: by code point, a proper prefix being smaller
StrLess(a, b) ==
    IF Len(b) = 0 THEN FALSE
    ELSE IF Len(a) = 0 THEN TRUE
    ELSE IF Ord(Head(a)) # Ord(Head(b)) THEN Ord(Head(a)) < Ord(Head(b))
    ELSE StrLess(Tail(a), Tail(b))

RECURSIVE SortedStrings(_)
\* sorted(list(files)) of a set of str
SortedStrings(files) ==
    IF files = {} THEN <<>>
    ELSE LET least == CHOOSE f \in files : \A g \in files : ~StrLess(g, f)
         IN  <<least>> \o SortedStrings(files \ {least})

RECURSIVE FilesLoop(_, _, _)
\* the loop of get_changed_files from line i on, files the set so far
FilesLoop(lines, i, files) ==
    IF i > Len(lines) THEN files
    ELSE IF new_file_pattern(lines[i]).some
    THEN FilesLoop(lines, i + 1, files \cup {new_file_pattern(lines[i]).val})
    ELSE FilesLoop(lines, i + 1, files)

\* what get_changed_files returns for the set it collected
\* (variant: the list in descending order)
ReturnFiles_Descending(files) ==
    LET sorted == SortedStrings(files)
    IN  [i \in 1..Len(sorted) |-> sorted[Len(sorted) + 1 - i]]
ReturnFiles(files) == SortedStrings(files)

\* get_changed_files(diff_text)
get_changed_files(lines) == ReturnFiles(FilesLoop(lines, 1, {}))

\* min / max of the line numbers of a non-empty added_lines
MinLine(added_lines) ==
    CHOOSE n \in {added_lines[k][1] : k \in 1..Len(added_lines)} :
        \A k \in 1..Len(added_lines) : n <= added_lines[k][1]
MaxLine(added_lines) ==
    CHOOSE n \in {added_lines[k][1] : k \in 1..Len(added_lines)} :
        \A k \in 1..Len(added_lines) : n >= added_lines[k][1]

RECURSIVE RangesLoop(_, _, _, _)
\* `for chunk in chunks`: the (start, end) of every chunk of file_path that
\* has added lines
RangesLoop(cs, file_path, i, ranges) ==
    IF i > Len(cs) THEN ranges
    ELSE IF cs[i].file_path = file_path /\ Len(cs[i].added_lines) > 0
    THEN RangesLoop(cs, file_path, i + 1,
             Append(ranges, <<MinLine(cs[i].added_lines), MaxLine(cs[i].added_lines)>>))
    ELSE RangesLoop(cs, file_path, i + 1, ranges)

\* (s1, e1) <= (s2, e2) on tuples of int
RangeLeq(a, b) == a[1] < b[1] \/ (a[1] = b[1] /\ a[2] <= b[2])

RECURSIVE SortRanges(_)
\* ranges.sort(): insertion of the head into the sorted tail
SortRanges(ranges) ==
    IF Len(ranges) <= 1 THEN ranges
    ELSE LET rest == SortRanges(Tail(ranges))
             k == Cardinality({j \in 1..Len(rest) : ~RangeLeq(Head(ranges), rest[j])})
         IN  SubSeq(rest, 1, k) \o <<Head(ranges)>> \o SubSeq(rest, k + 1, Len(rest))

\* `if start <= last_end + 1`: the range overlaps or touches the last merged
\* (variant: ranges are never merged)
Mergeable_Never(start, last_end) == FALSE
Mergeable(start, last_end) == start <= last_end + 1

RECURSIVE MergeLoop(_, _, _)
\* `for start, end in ranges[1:]`, from index i on
MergeLoop(ranges, i, merged) ==
    IF i > Len(ranges) THEN merged
    ELSE LET start == ranges[i][1]
             end == ranges[i][2]
             last_start == merged[Len(merged)][1]
             last_end == merged[Len(merged)][2]
         IN  IF Mergeable(start, last_end)
             THEN MergeLoop(ranges, i + 1,
                      [merged EXCEPT ![Len(merged)] =
                          <<last_start, IF end > last_end THEN end ELSE last_end>>])
             ELSE MergeLoop(ranges, i + 1, Append(merged, <<start, end>>))

\* get_changed_line_ranges(diff_text, file_path)
get_changed_line_ranges(lines, file_path) ==
    LET ranges == RangesLoop(parse_diff(lines), file_path, 1, <<>>)
        sorted == SortRanges(ranges)
    IN  IF Len(ranges) = 0 THEN <<>>
        ELSE MergeLoop(sorted, 2, <<sorted[1]>>)


(***************************************************************************)
(* DiffAnalyzer.filter_code_files (utils/diff_analyzer.py)                 *)
(***************************************************************************)
\* skip_patterns: files and directories to skip
skip_patterns ==
    << <<"p", "a", "c", "k", "a", "g", "e", "-", "l", "o", "c", "k", ".", "j", "s", "o", "n">>, <<"y", "a", "r", "n", ".", "l", "o", "c", "k">>, <<"p", "o", "m", ".", "x", "m", "l">>, <<"b", "u", "i", "l", "d", ".", "g", "r", "a", "d", "l", "e">>,
       <<".", "g", "i", "t", "i", "g", "n", "o", "r", "e">>, <<"n", "o", "d", "e", "_", "m", "o", "d", "u", "l", "e", "s", "/">>, <<"t", "a", "r", "g", "e", "t", "/">>, <<"b", "u", "i", "l", "d", "/">>, <<"d", "i", "s", "t", "/">>,
       <<".", "g", "i", "t", "/">>, <<"_", "_", "p", "y", "c", "a", "c", "h", "e", "_", "_", "/">>, <<".", "e", "n", "v">>, <<".", "D", "S", "_", "S", "t", "o", "r", "e">> >>

\* code_extensions: valid code extensions
code_extensions ==
    { <<".", "j", "a", "v", "a">>, <<".", "p", "y">>, <<".", "j", "s">>, <<".", "t", "s">>, <<".", "j", "s", "x">>, <<".", "t", "s", "x">>, <<".", "g", "o">>, <<".", "r", "s">>,
      <<".", "c", "p", "p">>, <<".", "c">>, <<".", "h">>, <<".", "c", "s">>, <<".", "r", "b">>, <<".", "p", "h", "p">>, <<".", "s", "w", "i", "f", "t">>, <<".", "k", "t">>,
      <<".", "s", "c", "a", "l", "a">> }

\* (variant: no path is skipped)
IsSkipped_Never(path) == FALSE

\* any(pattern in path for pattern in skip_patterns)
IsSkipped(path) ==
    \E n \in 1..Len(skip_patterns) :
        \E i \in 1..(Len(path) + 1) : HasAt(path, i, skip_patterns[n])

\* any(path.endswith(ext) for ext in code_extensions)
HasCodeExtension(path) ==
    \E ext \in code_extensions : HasAt(path, Len(path) - Len(ext) + 1, ext)

RECURSIVE FilterLoop(_, _, _)
\* the loop of filter_code_files from the i-th path on
FilterLoop(file_paths, i, filtered) ==
    IF i > Len(file_paths) THEN filtered
    ELSE IF IsSkipped(file_paths[i]) THEN FilterLoop(file_paths, i + 1, filtered)
    ELSE IF HasCodeExtension(file_paths[i])
         THEN FilterLoop(file_paths, i + 1, Append(filtered, file_paths[i]))
         ELSE FilterLoop(file_paths, i + 1, filtered)

\* filter_code_files(file_paths)
filter_code_files(file_paths) == FilterLoop(file_paths, 1, <<>>)

(***************************************************************************)
(* RAGService (app/services/rag_service.py)                                *)
(* The vector index is a list of entries [id, document, metadata] in the   *)
(* order they were added. A dict is a function from its keys; {} is <<>>.  *)
(***************************************************************************)
\* truthiness of an Optional[Dict]: None and {} are falsy
DictTruthy(d) == d.some /\ DOMAIN d.val # {}

\* dict.update(other): the keys of other win
DictUpdate(d, other) ==
    [k \in DOMAIN d \cup DOMAIN other |->
        IF k \in DOMAIN other THEN other[k] ELSE d[k]]

\* dict.get(key, default)
DictGet(d, key, default) == IF key \in DOMAIN d THEN d[key] ELSE default

\* the step of a call at which the index fails, or the shape of what it answers
IndexFaults ==
    { "none", "count", "count_again", "query", "no_results", "no_documents",
      "no_metadatas", "short_metadatas", "null_metadata", "no_distances" }

\* collection.count()
Count(coll) == Len(coll)

\* the where argument of the query: both equalities under "$and" when a
\* repository id is given, the language alone otherwise
Where(repository_id, language) ==
    IF Len(repository_id) > 0
    THEN [repository_id |-> repository_id, language |-> language]
    ELSE [language |-> language]

\* an entry satisfies every equality of the where clause
WhereMatches(entry, where) ==
    \A k \in DOMAIN where :
        k \in DOMAIN entry.metadata /\ entry.metadata[k] = where[k]

\* collection.query(query_texts=[code_snippet], n_results, where): the
\* n_results nearest entries that satisfy where, one result list per query
\* text; nearness is abstracted to the order of addition and the distance
\* to the rank. The index rejects n_results < 1, and fault makes it raise
\* or answer in one of the shapes the mapping has to cope with.
Query(coll, n_results, where, fault) ==
    LET hits == SelectSeq(coll, LAMBDA e : WhereMatches(e, where))
        n == IF n_results < Len(hits) THEN n_results ELSE Len(hits)
        metas == [i \in 1..n |->
                     IF fault = "null_metadata" THEN None
                     ELSE Some(hits[i].metadata)]
    IN  [raises |-> fault = "query" \/ n_results < 1,
         results |->
            IF fault = "no_results" THEN None
            ELSE Some(
              [documents |->
                   IF fault = "no_documents" THEN <<>>
                   ELSE << [i \in 1..n |-> hits[i].document] >>,
               metadatas |->
                   IF fault = "no_metadatas" THEN <<>>
                   ELSE IF fault = "short_metadatas"
                        THEN << SubSeq(metas, 1, n - 1) >>
                        ELSE << metas >>,
               distances |->
                   IF fault = "no_distances" THEN <<>>
                   ELSE << [i \in 1..n |-> i - 1] >>])]

\* lines 84-93: the patterns built from a query answer; the lookup of the
\* i-th metadata raises when the list is too short, and .get raises on None
FormatResults(results) ==
    IF ~(results.some /\ Len(results.val.documents) > 0)
    THEN [raised |-> FALSE, patterns |-> <<>>]
    ELSE
      LET r == results.val
          docs == r.documents[1]
          has_metas == Len(r.metadatas) > 0
          has_dists == Len(r.distances) > 0
          Fails(i) ==
              \/ has_metas /\ (i > Len(r.metadatas[1]) \/ ~r.metadatas[1][i].some)
              \/ has_dists /\ i > Len(r.distances[1])
      IN  IF \E i \in 1..Len(docs) : Fails(i)
          THEN [raised |-> TRUE, patterns |-> <<>>]
          ELSE [raised |-> FALSE,
                patterns |->
                  [i \in 1..Len(docs) |->
                    [code |-> docs[i],
                     metadata |-> IF has_metas THEN r.metadatas[1][i].val ELSE <<>>,
                     distance |-> IF has_dists THEN r.distances[1][i] ELSE 0,
                     description |->
                        IF has_metas
                        THEN DictGet(r.metadatas[1][i].val, "description", <<>>)
                        ELSE <<>>]]]

\* what a call hands back: a value or an exception, and the operations it
\* invoked on the index, in order
RagOutcome(raised, result, index_calls) ==
    [raised |-> raised, result |-> result, index_calls |-> index_calls]

\* (variant: the empty-index shortcut is missing)
IsEmptyIndex_Never(n) == FALSE

\* line 67: collection.count() == 0
IsEmptyIndex(n) == n = 0

\* (variant: the whole index is asked for)
NResults_IndexSize(limit, n) == n

\* line 74: min(limit, self.collection.count())
NResults(limit, n) == IF limit < n THEN limit ELSE n

\* the try block of find_similar_patterns (lines 66-96); raised marks an
\* exception leaving the block
FindTry(code_snippet, repository_id, language, limit, coll, fault) ==
    IF fault = "count" THEN RagOutcome(TRUE, <<>>, <<"count">>)
    ELSE IF IsEmptyIndex(Count(coll)) THEN RagOutcome(FALSE, <<>>, <<"count">>)
    ELSE IF fault = "count_again"
         THEN RagOutcome(TRUE, <<>>, <<"count", "count">>)
    ELSE
      LET n_results == NResults(limit, Count(coll))
          q == Query(coll, n_results, Where(repository_id, language), fault)
          calls == <<"count", "count", "query">>
          f == FormatResults(q.results)
      IN  IF q.raises THEN RagOutcome(TRUE, <<>>, calls)
          ELSE RagOutcome(f.raised, f.patterns, calls)

\* (variant: the handler re-raises)
FindExcept_Reraise(r) == r

\* the except clause of find_similar_patterns (lines 98-100): log, return []
FindExcept(r) == IF r.raised THEN RagOutcome(FALSE, <<>>, r.index_calls) ELSE r

\* find_similar_patterns(code_snippet, repository_id, language, limit)
find_similar_patterns(code_snippet, repository_id, language, limit, coll, fault) ==
    FindExcept(FindTry(code_snippet, repository_id, language, limit, coll, fault))

\* hexdigest()[:16]: the first 16 characters of a digest
Prefix16(digest) == <<"prefix16", digest>>

\* _generate_pattern_id(code, repository_id, file_path)
generate_pattern_id(code, repository_id, file_path) ==
    LET content == repository_id \o <<":">> \o file_path \o <<":">> \o code
    IN  Prefix16(Sha256Hex(content))

\* the id some entry of the index has
HasId(coll, id) == \E i \in 1..Len(coll) : coll[i].id = id

\* what the index does with an add: it raises, it appends the entry, or,
\* for an id it already holds, it raises or keeps the entry it has (the
\* behaviour depends on the version of the index library)
AddOutcomes == { "ok", "raises" }
OnDuplicate == { "raise", "ignore" }

\* collection.add(documents=[code], metadatas=[pattern_metadata], ids=[pattern_id])
Add(coll, document, metadata, id, outcome, on_duplicate) ==
    IF outcome = "raises" THEN [raises |-> TRUE, collection |-> coll]
    ELSE IF HasId(coll, id)
         THEN [raises |-> on_duplicate = "raise", collection |-> coll]
         ELSE [raises |-> FALSE,
               collection |-> Append(coll, [id |-> id, document |-> document,
                                            metadata |-> metadata])]

\* lines 132-141: the metadata stored with a pattern
PatternMetadata(repository_id, file_path, language, category, description, metadata) ==
    LET pattern_metadata ==
            [repository_id |-> repository_id, file_path |-> file_path,
             language |-> language, category |-> category,
             description |-> description]
    IN  IF DictTruthy(metadata) THEN DictUpdate(pattern_metadata, metadata.val)
        ELSE pattern_metadata

\* what store_pattern hands back, and the index it leaves
StoreOutcome(raised, result, index_calls, coll) ==
    [raised |-> raised, result |-> result, index_calls |-> index_calls,
     collection |-> coll]

\* (variant: the language is part of what the id is computed from)
StoreTry_IdFromLanguage(code, repository_id, file_path, language, category, description, metadata, coll, outcome, on_duplicate) ==
    LET pattern_id == generate_pattern_id(code \o language, repository_id, file_path)
        a == Add(coll, code,
                 PatternMetadata(repository_id, file_path, language, category,
                                 description, metadata),
                 pattern_id, outcome, on_duplicate)
    IN  StoreOutcome(a.raises, IF a.raises THEN None ELSE Some(pattern_id),
                     <<"add">>, a.collection)

\* the try block of store_pattern (lines 127-151)
StoreTry(code, repository_id, file_path, language, category, description, metadata, coll, outcome, on_duplicate) ==
    LET pattern_id == generate_pattern_id(code, repository_id, file_path)
        a == Add(coll, code,
                 PatternMetadata(repository_id, file_path, language, category,
                                 description, metadata),
                 pattern_id, outcome, on_duplicate)
    IN  StoreOutcome(a.raises, IF a.raises THEN None ELSE Some(pattern_id),
                     <<"add">>, a.collection)

\* (variant: the handler logs and returns nothing, as a caller that swallows)
StoreExcept_Swallow(r) == IF r.raised THEN StoreOutcome(FALSE, None, r.index_calls, r.collection) ELSE r

\* the except clause of store_pattern (lines 153-155): log, raise
StoreExcept(r) == r

\* store_pattern(code, repository_id, file_path, language, category,
\*               description, metadata)
store_pattern(code, repository_id, file_path, language, category, description, metadata, coll, outcome, on_duplicate) ==
    StoreExcept(StoreTry(code, repository_id, file_path, language, category,
                         description, metadata, coll, outcome, on_duplicate))

\* the try block of store_accepted_suggestion (lines 172-193): the accepted
\* code is stored as a pattern with a description and metadata of its own
AcceptTry(suggestion_id, code_before, code_after, repository_id, file_path, language, category, coll, outcome, on_duplicate) ==
    LET description == <<"A", "c", "c", "e", "p", "t", "e", "d", " ">> \o category \o <<" ", "i", "m", "p", "r", "o", "v", "e", "m", "e", "n", "t">>
        metadata ==
            [suggestion_id |-> suggestion_id,
             type |-> <<"a", "c", "c", "e", "p", "t", "e", "d", "_", "s", "u", "g", "g", "e", "s", "t", "i", "o", "n">>,
             code_before |-> SubSeq(code_before, 1,
                                    IF Len(code_before) < 500 THEN Len(code_before) ELSE 500),
             improvement |-> category]
    IN  store_pattern(code_after, repository_id, file_path, language, category,
                      description, Some(metadata), coll, outcome, on_duplicate)

\* the end of store_accepted_suggestion (lines 193-196): the try block has
\* no return value and the except clause logs without raising, so the method
\* returns None whether or not store_pattern raised
AcceptExcept(r) == StoreOutcome(FALSE, None, r.index_calls, r.collection)

\* store_accepted_suggestion(suggestion_id, code_before, code_after,
\*                           repository_id, file_path, language, category)
store_accepted_suggestion(suggestion_id, code_before, code_after, repository_id, file_path, language, category, coll, outcome, on_duplicate) ==
    AcceptExcept(AcceptTry(suggestion_id, code_before, code_after, repository_id,
                           file_path, language, category, coll, outcome,
                           on_duplicate))

\* get_repository_stats(repository_id) on an index that answers (lines
\* 201-217): the entries tagged with the repository id, tallied by category
get_repository_stats(repository_id, coll) ==
    LET results == SelectSeq(coll, LAMBDA e :
                       WhereMatches(e, [repository_id |-> repository_id]))
        CategoryOf(i) ==
            DictGet(results[i].metadata, "category", <<"u", "n", "k", "n", "o", "w", "n">>)
        categories == {CategoryOf(i) : i \in 1..Len(results)}
    IN  [total_patterns |-> Len(results),
         categories |->
            [c \in categories |->
                Cardinality({i \in 1..Len(results) : CategoryOf(i) = c})]]

(***************************************************************************)
(* PatternDetector (app/services/pattern_detector.py)                      *)
(* Source code is a list of lines, code.split('\n'). A regular expression  *)
(* is a list of items, each a character class with the least and the most  *)
(* repetitions (most < 0: unbounded) or a word boundary; an alternation is *)
(* the set of its alternatives.                                            *)
(***************************************************************************)
\* the lines source code is made of
CodeLines ==
    { <<"}", " ", "c", "a", "t", "c", "h", " ", "(", "E", "x", "c", "e", "p", "t", "i", "o", "n", " ", "e", ")", " ", "{">>,
      <<"}">>,
      <<"S", "y", "s", "t", "e", "m", ".", "o", "u", "t", ".", "p", "r", "i", "n", "t", "l", "n", "(", "x", ")">>,
      <<"e", "x", "c", "e", "p", "t", ":">>,
      <<"p", "r", "i", "n", "t", "(", "x", ")">>,
      <<"d", "e", "f", " ", "f", "(", "a", "=", "[", "]", ")", ":">>,
      <<"c", "o", "n", "s", "o", "l", "e", ".", "l", "o", "g", "(", "x", ")">>,
      <<"v", "a", "r", " ", "a", " ", "=", "=", " ", "b">>,
      <<" ", "p", "a", "s", "s", "w", "o", "r", "d", " ", "=", " ", "\"", "x", "\"">>,
      <<"A", "P", "I", "_", "K", "E", "Y", " ", "=", " ", "'", "x", "'", " ", "#", " ", "f", "i", "x", "m", "e">>,
      <<"/", "/", " ", "T", "O", "D", "O", " ", "x">>,
      <<>> }

\* the characters of the lines
Alphabet == UNION { {l[i] : i \in 1..Len(l)} : l \in CodeLines }

\* c.lower() of one character
LowerChar(c) ==
    LET UpperCase == <<"A", "B", "C", "D", "E", "F", "G", "H", "I", "J", "K", "L", "M", "N", "O", "P", "Q", "R", "S", "T", "U", "V", "W", "X", "Y", "Z">>
        LowerCase == <<"a", "b", "c", "d", "e", "f", "g", "h", "i", "j", "k", "l", "m", "n", "o", "p", "q", "r", "s", "t", "u", "v", "w", "x", "y", "z">>
    IN  IF \E i \in 1..Len(UpperCase) : UpperCase[i] = c
        THEN LowerCase[CHOOSE i \in 1..Len(UpperCase) : UpperCase[i] = c]
        ELSE c

\* (variant: the language tag is compared as it was given)
Lower_Identity(s) == s

\* s.lower()
Lower(s) == [i \in 1..Len(s) |-> LowerChar(s[i])]

\* the class \w: letters, digits and the underscore
WordChars ==
    { c \in Alphabet :
        LowerChar(c) \in
            {"a", "b", "c", "d", "e", "f", "g", "h", "i", "j", "k", "l", "m",
             "n", "o", "p", "q", "r", "s", "t", "u", "v", "w", "x", "y", "z",
             "0", "1", "2", "3", "4", "5", "6", "7", "8", "9", "_"} }

\* the positions a match can be at after one more item, from the positions
\* in from; a position is the number of characters of the line before it
ItemEnds(item, line, from, ignorecase) ==
    LET InClass(j) ==
            IF ignorecase
            THEN \E c \in item.cls : LowerChar(c) = LowerChar(line[j])
            ELSE line[j] \in item.cls
        IsWord(j) == j >= 1 /\ j <= Len(line) /\ line[j] \in WordChars
    IN  IF item.boundary THEN {p \in from : IsWord(p) # IsWord(p + 1)}
        ELSE {q \in 0..Len(line) :
                \E p \in from :
                    /\ p + item.min <= q
                    /\ item.max < 0 \/ q <= p + item.max
                    /\ \A j \in (p + 1)..q : InClass(j)}

RECURSIVE RegexEnds(_, _, _, _, _)
\* the positions a match of the items from the k-th on can end at
RegexEnds(items, k, line, from, ignorecase) ==
    IF k > Len(items) \/ from = {} THEN from
    ELSE RegexEnds(items, k + 1, line, ItemEnds(items[k], line, from, ignorecase), ignorecase)

\* re.search(regex, line) and re.search(regex, line, re.IGNORECASE) find a match
Search(regex, line, ignorecase) ==
    RegexEnds(regex, 1, line, 0..Len(line), ignorecase) # {}

\* PatternMatch(pattern_type, severity, message, line_number, code_snippet, confidence);
\* the confidence is in hundredths
PatternMatch(pattern_type, severity, message, line_number, code_snippet, confidence) ==
    [pattern_type |-> pattern_type, severity |-> severity, message |-> message,
     line_number |-> line_number, code_snippet |-> code_snippet,
     confidence |-> confidence]

\* the matches of one rule: for i, line in enumerate(lines, 1): if hit: append;
\* hit[i] tells whether the condition of the rule holds of the i-th line
RuleMatches(lines, hit, pattern_type, severity, message, confidence) ==
    LET hits == SelectSeq([i \in 1..Len(lines) |-> i], LAMBDA i : hit[i])
    IN  [k \in 1..Len(hits) |->
            PatternMatch(pattern_type, severity, message, hits[k],
                         Strip(lines[hits[k]]), confidence)]

\* the regular expressions and the substrings the rules look for in a line.
\* Items: a literal text, one character of a class, a class repeated *, +
\* and ?, the word boundary \b; classes: \s, ., [^...], ["']. An
\* alternation is the set of its alternatives.
Expressions ==
    LET Item(cls, min, max) == <<[cls |-> cls, min |-> min, max |-> max, boundary |-> FALSE]>>
        Lit(s) == [i \in 1..Len(s) |-> Item({s[i]}, 1, 1)[1]]
        One(cls) == Item(cls, 1, 1)
        Star(cls) == Item(cls, 0, -1)
        Plus(cls) == Item(cls, 1, -1)
        Opt(cls) == Item(cls, 0, 1)
        WordBoundary == <<[cls |-> {}, min |-> 0, max |-> 0, boundary |-> TRUE]>>
        AnyChar == Alphabet \ {"\n"}
        NotIn(cs) == Alphabet \ cs
        Quote == {"\"", "'"}
        Assigned(name) ==
            name \o Star(Whitespace) \o Lit(<<"=">>) \o Star(Whitespace) \o One(Quote)
                 \o Plus(NotIn(Quote)) \o One(Quote)
        Called(name) ==
            Lit(name) \o Lit(<<"(">>) \o One(Quote) \o Star(AnyChar) \o Lit(<<"+">>)
                 \o Star(AnyChar) \o One(Quote)
        Default(open) ==
            Lit(<<"d", "e", "f">>) \o Plus(Whitespace) \o Plus(WordChars) \o Star(Whitespace)
                \o Lit(<<"(">>) \o Star(NotIn({")"})) \o Lit(<<"=">>) \o Star(Whitespace)
                \o Lit(open)
        Comment(mark, word) == Lit(mark) \o Star(Whitespace) \o Lit(word)
        Re(alternatives, ignorecase) ==
            [alternatives |-> alternatives, ignorecase |-> ignorecase]
    IN  [catch |-> Re({Lit(<<"c", "a", "t", "c", "h">>)}, FALSE),
         generic_catch |->
            Re({Lit(<<"c", "a", "t", "c", "h">>) \o Star(Whitespace) \o Lit(<<"(">>) \o Star(Whitespace)
                    \o Lit(<<"E", "x", "c", "e", "p", "t", "i", "o", "n">>)}, FALSE),
         system_out |-> Re({Lit(<<"S", "y", "s", "t", "e", "m", ".", "o", "u", "t", ".", "p", "r", "i", "n", "t", "l", "n">>)}, FALSE),
         system_err |-> Re({Lit(<<"S", "y", "s", "t", "e", "m", ".", "e", "r", "r", ".", "p", "r", "i", "n", "t", "l", "n">>)}, FALSE),
         bare_except |-> Re({Lit(<<"e", "x", "c", "e", "p", "t">>) \o Star(Whitespace) \o Lit(<<":">>)}, FALSE),
         print_call |->
            Re({WordBoundary \o Lit(<<"p", "r", "i", "n", "t">>) \o Star(Whitespace) \o Lit(<<"(">>)}, FALSE),
         logger |-> Re({Lit(<<"l", "o", "g", "g", "e", "r">>)}, FALSE),
         mutable_list |-> Re({Default(<<"[">>)}, FALSE),
         mutable_dict |-> Re({Default(<<"{">>)}, FALSE),
         console_log |-> Re({Lit(<<"c", "o", "n", "s", "o", "l", "e", ".", "l", "o", "g">>)}, FALSE),
         console_error |-> Re({Lit(<<"c", "o", "n", "s", "o", "l", "e", ".", "e", "r", "r", "o", "r">>)}, FALSE),
         loose_equality |->
            Re({One(NotIn({"=", "!", "<", ">"})) \o Lit(<<"=", "=">>) \o One(NotIn({"="}))}, FALSE),
         var_keyword |-> Re({WordBoundary \o Lit(<<"v", "a", "r">>) \o Plus(Whitespace)}, FALSE),
         password |-> Re({Assigned(Lit(<<"p", "a", "s", "s", "w", "o", "r", "d">>))}, TRUE),
         api_key |-> Re({Assigned(Lit(<<"a", "p", "i">>) \o Opt({"_", "-"}) \o Lit(<<"k", "e", "y">>))}, TRUE),
         secret |-> Re({Assigned(Lit(<<"s", "e", "c", "r", "e", "t">>))}, TRUE),
         token |-> Re({Assigned(Lit(<<"t", "o", "k", "e", "n">>))}, TRUE),
         execute |-> Re({Called(<<"e", "x", "e", "c", "u", "t", "e">>)}, FALSE),
         query |-> Re({Called(<<"q", "u", "e", "r", "y">>)}, FALSE),
         slash_todo |-> Re({Comment(<<"/", "/">>, <<"T", "O", "D", "O">>)}, FALSE),
         hash_todo |-> Re({Comment(<<"#">>, <<"T", "O", "D", "O">>)}, FALSE),
         slash_fixme |-> Re({Comment(<<"/", "/">>, <<"F", "I", "X", "M", "E">>)}, FALSE),
         hash_fixme |-> Re({Comment(<<"#">>, <<"F", "I", "X", "M", "E">>)}, FALSE),
         todo_or_fixme |->
            Re({Comment(mark, word) : mark \in {<<"/", "/">>, <<"#">>},
                                      word \in {<<"T", "O", "D", "O">>, <<"F", "I", "X", "M", "E">>}}, TRUE)]

\* re.search(expression, line) / substring in line, once for every line
Found ==
    [line \in CodeLines |->
        [e \in DOMAIN Expressions |->
            \E regex \in Expressions[e].alternatives :
                Search(regex, line, Expressions[e].ignorecase)]]

\* _load_patterns(): the rule table, in the order of the dict; the regular
\* expressions are named as in Expressions
load_patterns ==
    << [pattern_type |-> "hardcoded_credentials", severity |-> "critical",
        patterns |->
          << [regex |-> "password", message |-> "Hardcoded password"],
             [regex |-> "api_key", message |-> "Hardcoded API key"],
             [regex |-> "secret", message |-> "Hardcoded secret"],
             [regex |-> "token", message |-> "Hardcoded token"] >>],
       [pattern_type |-> "sql_injection", severity |-> "critical",
        patterns |->
          << [regex |-> "execute", message |-> "Potential SQL injection"],
             [regex |-> "query", message |-> "Potential SQL injection"] >>],
       [pattern_type |-> "todo_comments", severity |-> "info",
        patterns |->
          << [regex |-> "slash_todo", message |-> "TODO comment found"],
             [regex |-> "hash_todo", message |-> "TODO comment found"],
             [regex |-> "slash_fixme", message |-> "FIXME comment found"],
             [regex |-> "hash_fixme", message |-> "FIXME comment found"] >>] >>

\* _detect_java_patterns(code)
detect_java_patterns(lines) ==
    LET NextLines(i) ==
            IF i < Len(lines) - 3 THEN SubSeq(lines, i + 1, i + 3)
            ELSE SubSeq(lines, i + 1, Len(lines))
        EmptyCatch ==
            [i \in 1..Len(lines) |->
                /\ Found[lines[i]].catch
                /\ \E n \in 1..Len(NextLines(i)) : Strip(NextLines(i)[n]) = <<"}">>]
        GenericCatch == [i \in 1..Len(lines) |-> Found[lines[i]].generic_catch]
        ConsoleLogging ==
            [i \in 1..Len(lines) |->
                Found[lines[i]].system_out \/ Found[lines[i]].system_err]
    IN  RuleMatches(lines, EmptyCatch, "empty_catch", "major",
                    "Empty catch block - swallows exceptions", 80)
        \o RuleMatches(lines, GenericCatch, "catch_generic_exception", "minor",
                       "Catching generic Exception - be more specific", 90)
        \o RuleMatches(lines, ConsoleLogging, "console_logging", "minor",
                       "Use logger instead of System.out.println", 95)

\* _detect_python_patterns(code)
detect_python_patterns(lines) ==
    LET BareExcept == [i \in 1..Len(lines) |-> Found[lines[i]].bare_except]
        PrintStatement ==
            [i \in 1..Len(lines) |->
                /\ Found[lines[i]].print_call
                /\ ~\E n \in 1..Len(lines) : Found[lines[n]].logger]
        MutableDefault ==
            [i \in 1..Len(lines) |->
                Found[lines[i]].mutable_list \/ Found[lines[i]].mutable_dict]
    IN  RuleMatches(lines, BareExcept, "bare_except", "major",
                    "Bare except clause - catches all exceptions", 95)
        \o RuleMatches(lines, PrintStatement, "print_statement", "info",
                       "Consider using logging instead of print", 70)
        \o RuleMatches(lines, MutableDefault, "mutable_default_argument", "major",
                       "Mutable default argument - can lead to unexpected behavior", 85)

\* _detect_javascript_patterns(code)
detect_javascript_patterns(lines) ==
    LET ConsoleLog ==
            [i \in 1..Len(lines) |->
                Found[lines[i]].console_log \/ Found[lines[i]].console_error]
        LooseEquality == [i \in 1..Len(lines) |-> Found[lines[i]].loose_equality]
        VarKeyword == [i \in 1..Len(lines) |-> Found[lines[i]].var_keyword]
    IN  RuleMatches(lines, ConsoleLog, "console_log", "info",
                    "Remove console.log before production", 90)
        \o RuleMatches(lines, LooseEquality, "loose_equality", "minor",
                       "Use === instead of == for strict equality", 80)
        \o RuleMatches(lines, VarKeyword, "var_keyword", "minor",
                       "Use let or const instead of var", 90)

\* _detect_universal_patterns(code): the four hardcoded-credential
\* expressions of the rule table, one after the other over all lines, then
\* the TODO/FIXME comments
detect_universal_patterns(lines) ==
    LET credentials ==
            SelectSeq(load_patterns,
                      LAMBDA config : config.pattern_type = "hardcoded_credentials")
        OfRegex(config, n) ==
            RuleMatches(lines,
                        [i \in 1..Len(lines) |-> Found[lines[i]][config.patterns[n].regex]],
                        config.pattern_type, config.severity,
                        config.patterns[n].message, 85)
        OfConfig(config) ==
            OfRegex(config, 1) \o OfRegex(config, 2) \o OfRegex(config, 3)
                \o OfRegex(config, 4)
        todos == RuleMatches(lines, [i \in 1..Len(lines) |-> Found[lines[i]].todo_or_fixme],
                             "todo_comment", "info",
                             "TODO/FIXME comment - needs attention", 95)
    IN  (IF Len(credentials) = 0 THEN <<>> ELSE OfConfig(credentials[1]))
        \o [k \in 1..Len(todos) |->
              [todos[k] EXCEPT !.code_snippet =
                    SubSeq(@, 1, IF Len(@) < 80 THEN Len(@) ELSE 80)]]

\* detect_patterns(code, language, file_path): the matches, and the rule
\* sets that ran
detect_patterns(lines, language) ==
    LET lang == Lower(language)
    IN  IF lang = <<"j", "a", "v", "a">>
        THEN [matches |-> detect_java_patterns(lines) \o detect_universal_patterns(lines),
              detectors |-> <<"java", "universal">>]
        ELSE IF lang = <<"p", "y", "t", "h", "o", "n">>
        THEN [matches |-> detect_python_patterns(lines) \o detect_universal_patterns(lines),
              detectors |-> <<"python", "universal">>]
        ELSE IF lang \in {<<"j", "a", "v", "a", "s", "c", "r", "i", "p", "t">>, <<"t", "y", "p", "e", "s", "c", "r", "i", "p", "t">>}
        THEN [matches |-> detect_javascript_patterns(lines)
                              \o detect_universal_patterns(lines),
              detectors |-> <<"javascript", "universal">>]
        ELSE [matches |-> detect_universal_patterns(lines),
              detectors |-> <<"universal">>]

\* severity_order of filter_by_severity
severity_order == [info |-> 0, minor |-> 1, major |-> 2, critical |-> 3]

\* (variant: a match has to be above the threshold)
SeverityKept_Above(severity, min_level) == DictGet(severity_order, severity, 0) > min_level

\* line 288: severity_order.get(m.severity, 0) >= min_level
SeverityKept(severity, min_level) == DictGet(severity_order, severity, 0) >= min_level

\* filter_by_severity(matches, min_severity)
filter_by_severity(matches, min_severity) ==
    LET min_level == DictGet(severity_order, min_severity, 0)
    IN  SelectSeq(matches, LAMBDA m : SeverityKept(m.severity, min_level))

\* (variant: a match is put in front of its group)
GroupAppend_Prepend(group, match) == <<match>> \o group

\* line 308: grouped[match.pattern_type].append(match)
GroupAppend(group, match) == Append(group, match)

RECURSIVE GroupLoop(_, _, _)
\* the loop of group_by_type from the i-th match on
GroupLoop(matches, i, grouped) ==
    IF i > Len(matches) THEN grouped
    ELSE
      LET match == matches[i]
          opened == IF match.pattern_type \in DOMAIN grouped THEN grouped
                    ELSE [k \in DOMAIN grouped \cup {match.pattern_type} |->
                            IF k \in DOMAIN grouped THEN grouped[k] ELSE <<>>]
      IN  GroupLoop(matches, i + 1,
                    [opened EXCEPT ![match.pattern_type] = GroupAppend(@, match)])

\* group_by_type(matches); the empty dict is the function of no key
group_by_type(matches) == GroupLoop(matches, 1, [k \in {} |-> <<>>])

(***************************************************************************)
(* The service as a state machine: calls arrive one after the other        *)
(***************************************************************************)
\* the lists handed to generate_embeddings_batch
BatchInputs == UNION {[1..n -> Texts] : n \in 0..MaxBatch}

\* no call was made yet
NoCall ==
    [op |-> "none", texts |-> <<>>, task_type |-> <<>>, cache_before |-> <<>>,
     result |-> None, results |-> <<>>, raised |-> FALSE,
     provider_calls |-> <<>>, cache_reads |-> <<>>, cache_writes |-> <<>>]

\* the record of a completed call with outcome r
CallRecord(op, texts, task_type, c, r) ==
    [op |-> op, texts |-> texts, task_type |-> task_type, cache_before |-> c,
     result |-> r.result, results |-> r.results, raised |-> r.raised,
     provider_calls |-> r.provider_calls, cache_reads |-> r.cache_reads,
     cache_writes |-> r.cache_writes]

\* a result that was not computed yet / a computed result
NoResult == [done |-> FALSE, val |-> <<>>]
Result(v) == [done |-> TRUE, val |-> v]

\* the diff analyzer before any of its methods was called, on the empty diff
DiffIdle ==
    /\ diff_text = << <<>> >>
    /\ chunks = NoResult
    /\ changed_files = NoResult
    /\ line_ranges = NoResult

\* the embedding service without provider and cache, before any call
EmbedIdle ==
    /\ gemini_service = FALSE
    /\ cache_service = FALSE
    /\ cache = <<>>
    /\ last = NoCall

\* no call was made to the RAG service yet
NoRagCall ==
    [op |-> "none", code |-> <<>>, repository_id |-> <<>>, file_path |-> <<>>,
     language |-> <<>>, limit |-> 0, extra |-> None, fault |-> "none",
     on_duplicate |-> "ignore", collection_before |-> <<>>, failed |-> FALSE,
     raised |-> FALSE, result |-> <<>>, pattern_id |-> None, index_calls |-> <<>>]

\* RAGService() on an index that holds no pattern, before any call
RagIdle ==
    /\ collection = <<>>
    /\ rag_last = NoRagCall
    /\ pattern_ids = {}

\* no call was made to the pattern detector yet
NoPatternCall ==
    [op |-> "none", code |-> <<>>, language |-> <<>>, matches |-> <<>>,
     min_severity |-> "info", result |-> <<>>, grouped |-> <<>>,
     detectors |-> <<>>]

\* PatternDetector() before any call
PatternIdle == pd_last = NoPatternCall

\* filter_code_files was not called yet
FilesIdle == code_files = NoResult

\* a caller that is not inside _generate_dummy_embedding
NoDummyCall ==
    [pc |-> "idle", text |-> <<>>, dimensions |-> 0, embedding |-> <<>>,
     result |-> <<>>]

\* the threads that call the embedding service
Callers == {1, 2}

\* no caller is inside _generate_dummy_embedding, none has been
DummyIdle ==
    /\ random_state = 0
    /\ dummy_calls = [c \in Callers |-> NoDummyCall]
    /\ dummy_log = <<>>

\* no caller is inside find_similar_patterns
NoFindCall ==
    [pc |-> "idle", code_snippet |-> <<>>, repository_id |-> <<>>,
     language |-> <<>>, limit |-> 0, fault |-> "none", size_checked |-> 0,
     size_counted |-> 0, n_results |-> 0, queries |-> <<>>, result |-> <<>>]

\* no find_similar_patterns call is under way step by step
FindIdle == find_call = NoFindCall

\* a caller that is not inside analyze_code
NoAnalyzeCall == [pc |-> "idle", wake |-> 0]

\* GeminiService() before any analyze_code call, at the first tick
GeminiIdle ==
    /\ clock = 1
    /\ last_request_time = 0
    /\ request_count = 0
    /\ analyze_calls = [c \in Callers |-> NoAnalyzeCall]
    /\ requests = <<>>

\* a thread that is not inside a method of the embedding service; provided
\* is what the provider returned to the call, None when it was not asked
NoEmbedCall ==
    [op |-> "none", pc |-> "idle", texts |-> <<>>, task_type |-> <<>>, i |-> 0,
     embeddings |-> <<>>, uncached_indices |-> <<>>, uncached_texts |-> <<>>,
     batch_embeddings |-> <<>>, provided |-> None, j |-> 0]

\* no thread is inside a method of the embedding service
ThreadsIdle == embed_calls = [c \in Callers |-> NoEmbedCall]

\* EmbeddingService(gemini_service, cache_service)
InitEmbed ==
    /\ gemini_service \in BOOLEAN
    /\ cache_service \in BOOLEAN
    /\ cache = <<>>
    /\ last = NoCall
    /\ DiffIdle
    /\ RagIdle
    /\ PatternIdle
    /\ FilesIdle
    /\ DummyIdle
    /\ FindIdle
    /\ GeminiIdle
    /\ ThreadsIdle

\* a caller runs generate_embedding(text, task_type), as its first call or
\* right after another generate_embedding
GenerateEmbedding ==
    \E text \in Texts, task_type \in TaskTypes, outcome \in ProviderOutcomes :
        LET r == generate_embedding(text, task_type, gemini_service,
                                    cache_service, cache, outcome)
        IN  /\ last.op \in {"none", "generate_embedding"}
            /\ cache' = r.cache
            /\ last' = CallRecord("generate_embedding", <<text>>, task_type, cache, r)
            /\ UNCHANGED <<gemini_service, cache_service, outside_embed>>

\* the texts of a batch that the scan finds uncached
Uncached(texts, task_type, cs, c) ==
    BatchScan(texts, task_type, cs, c, 1,
        [embeddings |-> <<>>, uncached_indices |-> <<>>,
         uncached_texts |-> <<>>, reads |-> <<>>]).uncached_texts

\* a caller runs generate_embeddings_batch(texts, task_type)
GenerateEmbeddingsBatch ==
    \E texts \in BatchInputs, task_type \in TaskTypes :
        \E outcome \in ProviderBatchOutcomes(
                           Len(Uncached(texts, task_type, cache_service, cache))) :
            LET r == generate_embeddings_batch(texts, task_type, gemini_service,
                                               cache_service, cache, outcome)
            IN  /\ last.op = "none"
                /\ cache' = r.cache
                /\ last' = CallRecord("generate_embeddings_batch", texts,
                                      task_type, cache, r)
                /\ UNCHANGED <<gemini_service, cache_service, outside_embed>>

\* the caller is done with the value the last call returned; the service
\* keeps nothing of a call but what it wrote to the cache
ReleaseResult ==
    /\ last.op # "none"
    /\ last' = NoCall
    /\ UNCHANGED <<gemini_service, cache_service, cache, outside_embed>>

NextEmbed == GenerateEmbedding \/ GenerateEmbeddingsBatch \/ ReleaseResult

SpecEmbed == InitEmbed /\ [][NextEmbed]_vars

(***************************************************************************)
(* The diff analyzer as a state machine: its methods are called on one     *)
(* diff text. The methods are pure, so the order of the calls changes no   *)
(* result; the line ranges are asked for once the other two are in.        *)
(***************************************************************************)
\* the lines diffs are made of: new-file and old-file headers, hunk headers
\* (with and without counts), added, removed and context lines, a line of
\* pluses that is no file header, a hunk header without its closing @@, the
\* empty line
DiffLines ==
    { <<"+", "+", "+", " ", "b", "/", "y">>,
      <<"+", "+", "+", " ", "b", "/", "x">>,
      <<"-", "-", "-", " ", "a", "/", "x">>,
      <<"@", "@", " ", "-", "1", " ", "+", "1", ",", "2", " ", "@", "@">>,
      <<"@", "@", " ", "-", "3", ",", "0", " ", "+", "3", " ", "@", "@">>,
      <<"+", "a">>,
      <<"-", "a">>,
      <<" ", "a">>,
      <<"+", "+", "+", "a">>,
      <<"@", "@", " ", "-", "1", " ", "+", "1">>,
      <<>> }

\* most lines in a diff text
MaxDiffLines == 4

\* diff_text.split('\n') of every diff text: a non-empty list of lines
DiffTexts == UNION {[1..n -> DiffLines] : n \in 1..MaxDiffLines}

\* the file paths get_changed_line_ranges is asked about
FilePaths == { <<"x">>, <<"y">>, <<>> }

\* DiffAnalyzer() and the diff text handed to it
InitDiff ==
    /\ diff_text \in DiffTexts
    /\ chunks = NoResult
    /\ changed_files = NoResult
    /\ line_ranges = NoResult
    /\ EmbedIdle
    /\ RagIdle
    /\ PatternIdle
    /\ FilesIdle
    /\ DummyIdle
    /\ FindIdle
    /\ GeminiIdle
    /\ ThreadsIdle

\* a caller runs parse_diff(diff_text)
ParseDiff ==
    /\ ~chunks.done
    /\ chunks' = Result(parse_diff(diff_text))
    /\ UNCHANGED <<diff_text, changed_files, line_ranges, outside_diff>>

\* a caller runs get_changed_files(diff_text)
GetChangedFiles ==
    /\ ~changed_files.done
    /\ changed_files' = Result(get_changed_files(diff_text))
    /\ UNCHANGED <<diff_text, chunks, line_ranges, outside_diff>>

\* a caller runs get_changed_line_ranges(diff_text, file_path)
GetChangedLineRanges ==
    \E file_path \in FilePaths :
        /\ chunks.done /\ changed_files.done
        /\ ~line_ranges.done
        /\ line_ranges' = Result([file_path |-> file_path,
                                  ranges |-> get_changed_line_ranges(diff_text, file_path)])
        /\ UNCHANGED <<diff_text, chunks, changed_files, outside_diff>>

NextDiff == ParseDiff \/ GetChangedFiles \/ GetChangedLineRanges

SpecDiff == InitDiff /\ [][NextDiff]_vars

(***************************************************************************)
(* The RAG service as a state machine: find and store calls arrive one     *)
(* after the other on an index that starts empty and keeps what is stored  *)
(***************************************************************************)
\* most entries in the index
MaxPatterns == 2

\* repository ids (the empty one selects the language-only filter), code
\* snippets, file paths, languages and result limits of the calls
RepositoryIds == { <<>>, <<"x">> }
Codes == { <<"a">>, <<"b">> }
RagFilePaths == { <<"y">> }
Languages == { <<"j", "a", "v", "a">>, <<"p", "y">> }
Limits == { 0, 1, MaxPatterns }

\* the language, category, description and extra metadata a pattern is
\* stored with; the extra metadata of the second overrides the language
StoreVariants ==
    { [language |-> <<"j", "a", "v", "a">>, category |-> <<"b">>,
       description |-> <<>>, metadata |-> None],
      [language |-> <<"p", "y">>, category |-> <<"a">>,
       description |-> <<"x">>,
       metadata |-> Some([language |-> <<"j", "a", "v", "a">>,
                          type |-> <<"a">>])] }

\* RAGService() over an empty index
InitRag ==
    /\ RagIdle
    /\ EmbedIdle
    /\ DiffIdle
    /\ PatternIdle
    /\ FilesIdle
    /\ DummyIdle
    /\ FindIdle
    /\ GeminiIdle
    /\ ThreadsIdle

\* a caller runs find_similar_patterns(code_snippet, repository_id, language, limit)
FindSimilarPatterns ==
    \E code_snippet \in Codes, repository_id \in RepositoryIds,
       language \in Languages, limit \in Limits, fault \in IndexFaults :
        LET r == find_similar_patterns(code_snippet, repository_id, language,
                                       limit, collection, fault)
            t == FindTry(code_snippet, repository_id, language, limit,
                         collection, fault)
        IN  /\ rag_last.op = "none"
            /\ rag_last' =
                 [op |-> "find_similar_patterns", code |-> code_snippet,
                  repository_id |-> repository_id, file_path |-> <<>>,
                  language |-> language, limit |-> limit, extra |-> None,
                  fault |-> fault, on_duplicate |-> "ignore",
                  collection_before |-> collection, failed |-> t.raised,
                  raised |-> r.raised, result |-> r.result,
                  pattern_id |-> None, index_calls |-> r.index_calls]
            /\ UNCHANGED <<collection, pattern_ids, outside_rag>>

\* a caller runs store_pattern(code, repository_id, file_path, language,
\* category, description, metadata)
StorePattern ==
    \E code \in Codes, repository_id \in RepositoryIds, file_path \in RagFilePaths,
       v \in StoreVariants, outcome \in AddOutcomes, on_duplicate \in OnDuplicate :
        LET r == store_pattern(code, repository_id, file_path, v.language,
                               v.category, v.description, v.metadata,
                               collection, outcome, on_duplicate)
        IN  /\ rag_last.op = "none"
            /\ Len(r.collection) <= MaxPatterns
            /\ collection' = r.collection
            /\ rag_last' =
                 [op |-> "store_pattern", code |-> code,
                  repository_id |-> repository_id, file_path |-> file_path,
                  language |-> v.language, limit |-> 0, extra |-> v.metadata,
                  fault |-> outcome, on_duplicate |-> on_duplicate,
                  collection_before |-> collection, failed |-> r.raised,
                  raised |-> r.raised, result |-> <<>>,
                  pattern_id |-> r.result, index_calls |-> r.index_calls]
            /\ pattern_ids' =
                 IF r.raised THEN pattern_ids
                 ELSE pattern_ids \cup
                        { [repository_id |-> repository_id, file_path |-> file_path,
                           code |-> code, language |-> v.language,
                           id |-> r.result.val] }
            /\ UNCHANGED outside_rag

\* the caller is done with what the last call returned
ReleaseRag ==
    /\ rag_last.op # "none"
    /\ rag_last' = NoRagCall
    /\ UNCHANGED <<collection, pattern_ids, outside_rag>>

NextRag == FindSimilarPatterns \/ StorePattern \/ ReleaseRag

SpecRag == InitRag /\ [][NextRag]_vars

(***************************************************************************)
(* find_similar_patterns step by step, while other callers of the index    *)
(* store patterns: the size check (line 67), the second count (line 74)    *)
(* and the query (line 72) are one operation on the index each, and a      *)
(* store of another caller can land between any two of them.               *)
(***************************************************************************)
\* the faults of the index the stepwise call meets
QueryFaults == { "none", "query" }

\* line 67: the caller enters and checks the size of the index
FindCheck ==
    \E code_snippet \in Codes, repository_id \in RepositoryIds,
       language \in Languages, limit \in Limits, fault \in QueryFaults :
        /\ find_call.pc = "idle"
        /\ find_call' =
             [NoFindCall EXCEPT
                 !.pc = IF IsEmptyIndex(Count(collection)) THEN "done" ELSE "checked",
                 !.code_snippet = code_snippet,
                 !.repository_id = repository_id,
                 !.language = language, !.limit = limit, !.fault = fault,
                 !.size_checked = Count(collection)]
        /\ UNCHANGED outside_find

\* line 74: the argument n_results is computed from a second count
FindCount ==
    /\ find_call.pc = "checked"
    /\ find_call' = [find_call EXCEPT
                        !.pc = "counted",
                        !.size_counted = Count(collection),
                        !.n_results = NResults(find_call.limit, Count(collection))]
    /\ UNCHANGED outside_find

\* lines 72-100: the query, the mapping of its answer, and the handler
FindQuery ==
    LET q == Query(collection, find_call.n_results,
                   Where(find_call.repository_id, find_call.language),
                   find_call.fault)
        f == FormatResults(q.results)
        t == IF q.raises THEN RagOutcome(TRUE, <<>>, <<"count", "count", "query">>)
             ELSE RagOutcome(f.raised, f.patterns, <<"count", "count", "query">>)
    IN  /\ find_call.pc = "counted"
        /\ find_call' = [find_call EXCEPT
                            !.pc = "done",
                            !.queries = Append(@, [n_results |-> find_call.n_results,
                                                   index_size |-> Count(collection)]),
                            !.result = FindExcept(t).result]
        /\ UNCHANGED outside_find

\* the caller is done with what the call returned
FindRelease ==
    /\ find_call.pc = "done"
    /\ find_call' = NoFindCall
    /\ UNCHANGED outside_find

\* another caller's store_pattern writes to the index
StoreConcurrently ==
    \E code \in Codes, repository_id \in RepositoryIds, file_path \in RagFilePaths,
       v \in StoreVariants, on_duplicate \in OnDuplicate :
        LET r == store_pattern(code, repository_id, file_path, v.language,
                               v.category, v.description, v.metadata,
                               collection, "ok", on_duplicate)
        IN  /\ Len(r.collection) <= MaxPatterns
            /\ r.collection # collection
            /\ collection' = r.collection
            /\ UNCHANGED <<rag_last, pattern_ids, outside_rag>>

NextRagThreads ==
    FindCheck \/ FindCount \/ FindQuery \/ FindRelease \/ StoreConcurrently

SpecRagThreads == InitRag /\ [][NextRagThreads]_vars

(***************************************************************************)
(* Learning from accepted suggestions: store_accepted_suggestion calls     *)
(* arrive one after the other on the index                                 *)
(***************************************************************************)
\* the suggestion ids, the code before the change and the categories of the
\* accepted suggestions
SuggestionIds == { <<"s">> }
CodesBefore == { <<>>, <<"c">> }
Categories == { <<"a">>, <<"b">> }

\* a caller runs store_accepted_suggestion(suggestion_id, code_before,
\* code_after, repository_id, file_path, language, category)
StoreAcceptedSuggestion ==
    \E suggestion_id \in SuggestionIds, code_before \in CodesBefore,
       code_after \in Codes, repository_id \in RepositoryIds,
       file_path \in RagFilePaths, language \in Languages,
       category \in Categories, outcome \in AddOutcomes,
       on_duplicate \in OnDuplicate :
        LET t == AcceptTry(suggestion_id, code_before, code_after, repository_id,
                           file_path, language, category, collection, outcome,
                           on_duplicate)
            r == store_accepted_suggestion(suggestion_id, code_before, code_after,
                                           repository_id, file_path, language,
                                           category, collection, outcome,
                                           on_duplicate)
        IN  /\ rag_last.op = "none"
            /\ Len(r.collection) <= MaxPatterns
            /\ collection' = r.collection
            /\ rag_last' =
                 [op |-> "store_accepted_suggestion", code |-> code_after,
                  repository_id |-> repository_id, file_path |-> file_path,
                  language |-> language, limit |-> 0, extra |-> None,
                  fault |-> outcome, on_duplicate |-> on_duplicate,
                  collection_before |-> collection, failed |-> t.raised,
                  raised |-> r.raised, result |-> <<>>,
                  pattern_id |-> r.result, index_calls |-> r.index_calls]
            /\ UNCHANGED <<pattern_ids, outside_rag>>

NextRagAccept == StoreAcceptedSuggestion \/ ReleaseRag

SpecRagAccept == InitRag /\ [][NextRagAccept]_vars

(***************************************************************************)
(* The pattern detector as a state machine: its methods are called one     *)
(* after the other; the detector keeps nothing of a call                   *)
(***************************************************************************)
\* most lines of a source text, most matches in a list
MaxCodeLines == 2
MaxMatches == 4

\* code.split('\n') of every source text: a non-empty list of lines
SourceTexts == UNION {[1..n -> CodeLines] : n \in 1..MaxCodeLines}

\* the language tags detect_patterns is called with
LanguageTags ==
    { <<"j", "a", "v", "a">>, <<"J", "a", "v", "a">>, <<"j", "a", "v", "a", " ">>, <<"p", "y", "t", "h", "o", "n">>, <<"P", "Y", "T", "H", "O", "N">>, <<"j", "a", "v", "a", "s", "c", "r", "i", "p", "t">>,
      <<"T", "y", "p", "e", "S", "c", "r", "i", "p", "t">>, <<"g", "o">>, <<>> }

\* the matches the post-processing methods are handed, and the thresholds
MatchPool ==
    { PatternMatch("type_a", "info", "msg", 1, "code", 90),
      PatternMatch("type_a", "minor", "msg", 2, "code", 90),
      PatternMatch("type_b", "major", "msg", 3, "code", 90),
      PatternMatch("type_c", "critical", "msg", 4, "code", 90) }
MatchLists == UNION {[1..n -> MatchPool] : n \in 0..MaxMatches}
MinSeverities == { "info", "minor", "major", "critical", "high" }

\* PatternDetector()
InitPattern ==
    /\ PatternIdle
    /\ FilesIdle
    /\ DummyIdle
    /\ EmbedIdle
    /\ DiffIdle
    /\ RagIdle
    /\ FindIdle
    /\ GeminiIdle
    /\ ThreadsIdle

\* a caller runs detect_patterns(code, language)
DetectPatterns ==
    \E lines \in SourceTexts, language \in LanguageTags :
        LET r == detect_patterns(lines, language)
        IN  /\ pd_last.op = "none"
            /\ pd_last' = [NoPatternCall EXCEPT !.op = "detect_patterns",
                              !.code = lines, !.language = language,
                              !.result = r.matches, !.detectors = r.detectors]
            /\ UNCHANGED outside_pattern

\* a caller runs filter_by_severity(matches, min_severity)
FilterBySeverity ==
    \E matches \in MatchLists, min_severity \in MinSeverities :
        /\ pd_last.op = "none"
        /\ pd_last' = [NoPatternCall EXCEPT !.op = "filter_by_severity",
                          !.matches = matches, !.min_severity = min_severity,
                          !.result = filter_by_severity(matches, min_severity)]
        /\ UNCHANGED outside_pattern

\* a caller runs group_by_type(matches)
GroupByType ==
    \E matches \in MatchLists :
        /\ pd_last.op = "none"
        /\ pd_last' = [NoPatternCall EXCEPT !.op = "group_by_type",
                          !.matches = matches, !.grouped = group_by_type(matches)]
        /\ UNCHANGED outside_pattern

\* the caller is done with what the last call returned
ReleasePattern ==
    /\ pd_last.op # "none"
    /\ pd_last' = NoPatternCall
    /\ UNCHANGED outside_pattern

NextPattern == DetectPatterns \/ FilterBySeverity \/ GroupByType \/ ReleasePattern

SpecPattern == InitPattern /\ [][NextPattern]_vars

(***************************************************************************)
(* filter_code_files as a state machine: the method is called on one list  *)
(* of paths after the other                                                *)
(***************************************************************************)
\* the paths of changed files
ChangedPaths ==
    { <<"p", "o", "m", ".", "x", "m", "l">>, <<"s", "r", "c", "/", "M", "a", "i", "n", ".", "j", "a", "v", "a">>, <<"n", "o", "d", "e", "_", "m", "o", "d", "u", "l", "e", "s", "/", "x", ".", "j", "s">>, <<"a", ".", "p", "y">>,
      <<"b", "u", "i", "l", "d", "/", "a", ".", "c">>, <<"x", ".", "c", "s">>, <<"R", "E", "A", "D", "M", "E", ".", "m", "d">>, <<".", "e", "n", "v", "i", "r", "o", "n", "m", "e", "n", "t", ".", "p", "y">>, <<".", "p", "y">>,
      <<"a", ".", "j", "a", "v", "a", ".", "b", "a", "k">> }

\* most paths in a list
MaxPaths == 3

\* the lists filter_code_files is handed
PathLists == UNION {[1..n -> ChangedPaths] : n \in 0..MaxPaths}

\* DiffAnalyzer() before filter_code_files was called
InitFiles ==
    /\ FilesIdle
    /\ DummyIdle
    /\ EmbedIdle
    /\ DiffIdle
    /\ RagIdle
    /\ PatternIdle
    /\ FindIdle
    /\ GeminiIdle
    /\ ThreadsIdle

\* a caller runs filter_code_files(file_paths)
FilterCodeFiles ==
    \E file_paths \in PathLists :
        /\ ~code_files.done
        /\ code_files' = Result([file_paths |-> file_paths,
                                 filtered |-> filter_code_files(file_paths)])
        /\ UNCHANGED outside_files

\* the caller is done with the list the call returned
ReleaseFiles ==
    /\ code_files.done
    /\ code_files' = NoResult
    /\ UNCHANGED outside_files

NextFiles == FilterCodeFiles \/ ReleaseFiles

SpecFiles == InitFiles /\ [][NextFiles]_vars

(***************************************************************************)
(* _generate_dummy_embedding step by step. The random module keeps one     *)
(* generator for the whole process; random.seed and every random.uniform   *)
(* are one step each on it, the hash and the normalisation work on locals. *)
(* In SpecDummy one caller makes one call after the other; in              *)
(* SpecDummyThreads two threads are inside the method at the same time,    *)
(* for different texts.                                                    *)
(***************************************************************************)
\* the texts the fallback embedding is computed for
DummyTexts == { <<"a">>, <<"b">> }

\* most completed calls in a run; most dimensions asked for by the threads
MaxDummyCalls == 3
MaxDimensions == 2

\* the calls begun so far
DummyCallsBegun ==
    Len(dummy_log) + Cardinality({c \in Callers : dummy_calls[c].pc # "idle"})

\* lines 232-236: caller c enters with text and dimensions, hashes the text
\* and seeds the generator
DummySeed(c, text, dimensions) ==
    /\ dummy_calls[c].pc = "idle"
    /\ DummyCallsBegun < MaxDummyCalls
    /\ random_state' = Seeded(random_state, Md5Int(text, 0))
    /\ dummy_calls' = [dummy_calls EXCEPT ![c] =
                          [pc |-> "draw", text |-> text, dimensions |-> dimensions,
                           embedding |-> <<>>, result |-> <<>>]]
    /\ UNCHANGED <<dummy_log, outside_dummy>>

\* line 238: caller c draws the next random.uniform(-1, 1)
DummyDraw(c) ==
    /\ dummy_calls[c].pc = "draw"
    /\ Len(dummy_calls[c].embedding) < dummy_calls[c].dimensions
    /\ random_state' = RandomNext(random_state, 1)
    /\ dummy_calls' = [dummy_calls EXCEPT ![c].embedding =
                          Append(@, RandomUniform(random_state'))]
    /\ UNCHANGED <<dummy_log, outside_dummy>>

\* lines 240-245: caller c has drawn all values, normalises and returns
DummyReturn(c) ==
    /\ dummy_calls[c].pc = "draw"
    /\ Len(dummy_calls[c].embedding) = dummy_calls[c].dimensions
    /\ dummy_calls' = [dummy_calls EXCEPT ![c].pc = "done",
                          ![c].result = Normalized(dummy_calls[c].embedding)]
    /\ UNCHANGED <<random_state, dummy_log, outside_dummy>>

\* caller c has taken what the call returned
DummyRelease(c) ==
    /\ dummy_calls[c].pc = "done"
    /\ dummy_log' = Append(dummy_log, [text |-> dummy_calls[c].text,
                                       dimensions |-> dummy_calls[c].dimensions,
                                       embedding |-> dummy_calls[c].result])
    /\ dummy_calls' = [dummy_calls EXCEPT ![c] = NoDummyCall]
    /\ UNCHANGED <<random_state, outside_dummy>>

\* the process starts with its generator in some state
InitDummy ==
    /\ random_state \in {0, 1023}
    /\ dummy_calls = [c \in Callers |-> NoDummyCall]
    /\ dummy_log = <<>>
    /\ EmbedIdle
    /\ DiffIdle
    /\ RagIdle
    /\ PatternIdle
    /\ FilesIdle
    /\ FindIdle
    /\ GeminiIdle
    /\ ThreadsIdle

\* one caller, one call with the default dimensions after the other
NextDummy ==
    \/ \E text \in DummyTexts : DummySeed(1, text, Dimensions)
    \/ DummyDraw(1)
    \/ DummyReturn(1)
    \/ DummyRelease(1)

SpecDummy == InitDummy /\ [][NextDummy]_vars

\* the texts of the calls the other threads are inside
DummyTextsInside(c) ==
    {dummy_calls[d].text : d \in {d \in Callers : d # c /\ dummy_calls[d].pc # "idle"}}

\* two threads, each step of one between any two steps of the other; a
\* thread enters for a text no other thread is computing
NextDummyThreads ==
    \E c \in Callers :
        \/ \E text \in DummyTexts \ DummyTextsInside(c), dimensions \in 1..MaxDimensions :
              DummySeed(c, text, dimensions)
        \/ DummyDraw(c)
        \/ DummyReturn(c)
        \/ DummyRelease(c)

SpecDummyThreads == InitDummy /\ [][NextDummyThreads]_vars

(***************************************************************************)
(* GeminiService (app/services/gemini_service.py): analyze_code and its    *)
(* throttle. The callers are coroutines of one event loop: a coroutine     *)
(* runs until it awaits, so a call is one step up to the sleep of          *)
(* _rate_limit and one step from the end of the sleep to its return. Time  *)
(* is counted in ticks of half a second.                                   *)
(***************************************************************************)
\* lines 229-233: the least time between two requests, 1.0 second
MinInterval == 2

\* the last tick of the clock and the most calls made
MaxTime == 6
MaxRequests == 3

\* the analyze_code calls begun so far
AnalyzeBegun ==
    request_count + Cardinality({c \in Callers : analyze_calls[c].pc = "sleeping"})

\* time passes; a sleep may end later than asked for, never earlier
Tick ==
    /\ clock < MaxTime
    /\ clock' = clock + 1
    /\ UNCHANGED <<last_request_time, request_count, analyze_calls, requests,
                   outside_gemini>>

\* lines 235-236 and 69-75: the caller passes the throttle, calls the
\* provider, parses the answer and returns, without an await in between
PassThrottle(c) ==
    /\ last_request_time' = clock
    /\ request_count' = request_count + 1
    /\ requests' = Append(requests, clock)
    /\ analyze_calls' = [analyze_calls EXCEPT ![c] = NoAnalyzeCall]

\* lines 60-65 and 227-233: a caller enters analyze_code and _rate_limit; it
\* goes to sleep when the last request is less than a second old, and
\* passes at once otherwise
AnalyzeCode(c) ==
    LET current_time == clock
        time_since_last == current_time - last_request_time
    IN  /\ analyze_calls[c].pc = "idle"
        /\ AnalyzeBegun < MaxRequests
        /\ IF last_request_time > 0 /\ time_since_last < MinInterval
           THEN /\ analyze_calls' =
                     [analyze_calls EXCEPT ![c] =
                         [pc |-> "sleeping",
                          wake |-> clock + (MinInterval - time_since_last)]]
                /\ UNCHANGED <<last_request_time, request_count, requests>>
           ELSE PassThrottle(c)
        /\ UNCHANGED <<clock, outside_gemini>>

\* line 233: the sleep of a caller is over
WakeUp(c) ==
    /\ analyze_calls[c].pc = "sleeping"
    /\ clock >= analyze_calls[c].wake
    /\ PassThrottle(c)
    /\ UNCHANGED <<clock, outside_gemini>>

\* GeminiService()
InitGemini ==
    /\ GeminiIdle
    /\ EmbedIdle
    /\ DiffIdle
    /\ RagIdle
    /\ PatternIdle
    /\ FilesIdle
    /\ DummyIdle
    /\ FindIdle
    /\ ThreadsIdle

NextGemini ==
    \/ Tick
    \/ \E c \in Callers : AnalyzeCode(c) \/ WakeUp(c)

SpecGemini == InitGemini /\ [][NextGemini]_vars

(***************************************************************************)
(* generate_embedding and generate_embeddings_batch step by step, two      *)
(* threads inside one service at the same time, one call each. Every read  *)
(* of the cache, every call of the provider and every write to the cache   *)
(* is one step; a step of the other thread can land between any two.       *)
(***************************************************************************)
\* the lists handed to generate_embeddings_batch by a thread: none, one
\* text, a blank one before a text, two texts
ThreadBatches ==
    { <<>>, << <<"a">> >>, << <<>>, <<"a">> >>, << <<" ", "b">>, <<"a">> >> }

\* the thread has returned from its call
Returned == [NoEmbedCall EXCEPT !.pc = "returned"]

\* the texts another thread than c is generating vectors for
InFlight(c) ==
    {t \in Texts : \E d \in Callers \ {c} :
        /\ embed_calls[d].pc \in {"missed", "got", "fill"}
        /\ \E j \in 1..Len(embed_calls[d].uncached_texts) :
               embed_calls[d].uncached_texts[j] = t}

\* lines 75 and 140: self._generate_dummy_embedding(text). The generator it
\* seeds and draws from belongs to the process (SpecDummyThreads follows it
\* draw by draw), so next to the vector of the text the call can come back
\* with the stream of a text another thread is in the fallback for
FallbackVectors(c, text) ==
    {DummyEmbeddings[text]}
        \cup (IF gemini_service THEN {} ELSE {DummyEmbeddings[t] : t \in InFlight(c)})

\* lines 50-60: a thread enters generate_embedding; it returns at once for a
\* blank text and for a text found in the cache
EmbedCheck(c) ==
    \E text \in Texts, task_type \in TaskTypes :
        LET cache_key == generate_cache_key(text, task_type)
            cached == IF cache_service THEN get_embedding(cache, cache_key) ELSE None
        IN  /\ embed_calls[c].pc = "idle"
            /\ embed_calls' = [embed_calls EXCEPT ![c] =
                   IF IsBlank(text) \/ (cache_service /\ Truthy(cached))
                   THEN Returned
                   ELSE [NoEmbedCall EXCEPT !.op = "generate_embedding",
                                            !.pc = "missed",
                                            !.texts = <<text>>,
                                            !.task_type = task_type,
                                            !.uncached_indices = <<1>>,
                                            !.uncached_texts = <<text>>]]
            /\ UNCHANGED <<embed_vars, outside_threads>>

\* lines 62-75 and 83-85: the provider is called, or the fallback when no
\* provider is attached; `provided` keeps what the provider returned
EmbedProvide(c) ==
    LET call == embed_calls[c]
    IN  /\ call.op = "generate_embedding"
        /\ call.pc = "missed"
        /\ \/ /\ gemini_service
              /\ \E outcome \in ProviderOutcomes :
                     embed_calls' = [embed_calls EXCEPT ![c] =
                         IF outcome.raises THEN Returned
                         ELSE [call EXCEPT !.pc = "got",
                                           !.batch_embeddings = <<outcome.value>>,
                                           !.provided = Some(<<outcome.value>>)]]
           \/ /\ ~gemini_service
              /\ \E v \in FallbackVectors(c, call.texts[1]) :
                     embed_calls' = [embed_calls EXCEPT ![c] =
                         [call EXCEPT !.pc = "got", !.batch_embeddings = <<v>>]]
        /\ UNCHANGED <<embed_vars, outside_threads>>

\* lines 78-81: the result is written to the cache and returned
EmbedStore(c) ==
    LET call == embed_calls[c]
        embedding == Some(call.batch_embeddings[1])
        cache_key == generate_cache_key(call.texts[1], call.task_type)
    IN  /\ call.op = "generate_embedding"
        /\ call.pc = "got"
        /\ cache' = IF ShouldCache(cache_service, embedding)
                    THEN set_embedding(cache, cache_key, embedding.val, CacheTtl)
                    ELSE cache
        /\ embed_calls' = [embed_calls EXCEPT ![c] = Returned]
        /\ UNCHANGED <<gemini_service, cache_service, last, outside_threads>>

\* lines 104-109: a thread enters generate_embeddings_batch
BatchBegin(c) ==
    \E texts \in ThreadBatches, task_type \in TaskTypes :
        /\ embed_calls[c].pc = "idle"
        /\ embed_calls' = [embed_calls EXCEPT ![c] =
               IF Len(texts) = 0 THEN Returned
               ELSE [NoEmbedCall EXCEPT !.op = "generate_embeddings_batch",
                                        !.pc = "scan",
                                        !.texts = texts,
                                        !.task_type = task_type,
                                        !.i = 1]]
        /\ UNCHANGED <<embed_vars, outside_threads>>

\* lines 112-130: one round of the first loop, for texts[i]; after the last
\* round the call returns if nothing is left to generate
BatchScanStep(c) ==
    LET call == embed_calls[c]
        scan == BatchScan(SubSeq(call.texts, 1, call.i), call.task_type,
                    cache_service, cache, call.i,
                    [embeddings |-> call.embeddings,
                     uncached_indices |-> call.uncached_indices,
                     uncached_texts |-> call.uncached_texts, reads |-> <<>>])
    IN  /\ call.pc = "scan"
        /\ embed_calls' = [embed_calls EXCEPT ![c] =
               IF call.i < Len(call.texts)
               THEN [call EXCEPT !.i = call.i + 1,
                                 !.embeddings = scan.embeddings,
                                 !.uncached_indices = scan.uncached_indices,
                                 !.uncached_texts = scan.uncached_texts]
               ELSE IF Len(scan.uncached_texts) = 0 THEN Returned
               ELSE [call EXCEPT !.pc = "missed",
                                 !.i = call.i + 1,
                                 !.embeddings = scan.embeddings,
                                 !.uncached_indices = scan.uncached_indices,
                                 !.uncached_texts = scan.uncached_texts]]
        /\ UNCHANGED <<embed_vars, outside_threads>>

\* lines 131-140 and 150-155: the provider is called once for the uncached
\* texts, or the fallback once per text when no provider is attached
BatchProvide(c) ==
    LET call == embed_calls[c]
        n == Len(call.uncached_texts)
    IN  /\ call.op = "generate_embeddings_batch"
        /\ call.pc = "missed"
        /\ \/ /\ gemini_service
              /\ \E outcome \in ProviderBatchOutcomes(n) :
                     embed_calls' = [embed_calls EXCEPT ![c] =
                         IF outcome.raises THEN Returned
                         ELSE [call EXCEPT !.pc = "fill", !.j = 1,
                                           !.batch_embeddings = outcome.values,
                                           !.provided = Some(outcome.values)]]
           \/ /\ ~gemini_service
              /\ \E vs \in [1..n -> UNION {FallbackVectors(c, call.uncached_texts[j]) :
                                              j \in 1..n}] :
                     /\ \A j \in 1..n : vs[j] \in FallbackVectors(c, call.uncached_texts[j])
                     /\ embed_calls' = [embed_calls EXCEPT ![c] =
                            [call EXCEPT !.pc = "fill", !.j = 1,
                                         !.batch_embeddings = vs]]
        /\ UNCHANGED <<embed_vars, outside_threads>>

\* lines 143-148 and 157: one round of the second loop, for pair j of the
\* zip; the call returns after the last round
BatchFillStep(c) ==
    LET call == embed_calls[c]
        pairs == Zip(call.uncached_indices, call.batch_embeddings)
        fill == BatchFill(call.texts, call.task_type, cache_service,
                    SubSeq(pairs, 1, call.j), call.j,
                    [embeddings |-> call.embeddings, writes |-> <<>>,
                     cache |-> cache])
    IN  /\ call.pc = "fill"
        /\ cache' = fill.cache
        /\ embed_calls' = [embed_calls EXCEPT ![c] =
               IF call.j < Len(pairs)
               THEN [call EXCEPT !.j = call.j + 1, !.embeddings = fill.embeddings]
               ELSE Returned]
        /\ UNCHANGED <<gemini_service, cache_service, last, outside_threads>>

NextEmbedThreads ==
    \E c \in Callers :
        \/ EmbedCheck(c)
        \/ EmbedProvide(c)
        \/ EmbedStore(c)
        \/ BatchBegin(c)
        \/ BatchScanStep(c)
        \/ BatchProvide(c)
        \/ BatchFillStep(c)

SpecEmbedThreads == InitEmbed /\ [][NextEmbedThreads]_vars

(***************************************************************************)
(* Properties of the embedding service                                     *)
(***************************************************************************)
\* a text is empty or consists of whitespace only
BlankText(text) == \A i \in 1..Len(text) : text[i] \in Whitespace

\* call l found its text at index i neither blank nor in the cache
MissAt(l, i) ==
    /\ ~BlankText(l.texts[i])
    /\ \/ ~cache_service
       \/ generate_cache_key(l.texts[i], l.task_type) \notin DOMAIN l.cache_before

\* call l found its text at index i in the cache
HitAt(l, i) ==
    /\ ~BlankText(l.texts[i])
    /\ cache_service
    /\ generate_cache_key(l.texts[i], l.task_type) \in DOMAIN l.cache_before

\* the indices of call l's texts that missed the cache, in input order
RECURSIVE MissIndices(_, _)
MissIndices(l, i) ==
    IF i > Len(l.texts) THEN <<>>
    ELSE IF MissAt(l, i) THEN <<i>> \o MissIndices(l, i + 1)
    ELSE MissIndices(l, i + 1)

\* the texts of call l that missed the cache, in input order
MissTexts(l) ==
    [j \in 1..Len(MissIndices(l, 1)) |-> l.texts[MissIndices(l, 1)[j]]]

\* l is a generate_embedding call on a cache that lacked the key, answered
\* by the provider with a non-empty vector
FirstEmbed(l) ==
    /\ l.op = "generate_embedding"
    /\ cache_service /\ gemini_service
    /\ MissAt(l, 1)
    /\ Truthy(l.result)

\* C1: with a cache attached that lacks the key and a provider answering with
\* a non-empty vector, two successive generate_embedding calls with the same
\* non-blank text and task type call the provider once in total and return
\* the same vector
C1_EmbedTwiceOneProviderCall ==
    [][(/\ FirstEmbed(last)
        /\ last'.op = "generate_embedding"
        /\ last'.texts = last.texts
        /\ last'.task_type = last.task_type)
       => (/\ Len(last.provider_calls) + Len(last'.provider_calls) = 1
           /\ last'.result = last.result)]_vars

\* C1 witness: a generate_embedding call served from the cache, which was
\* empty at the start, without a provider call
C1_Witness ==
    /\ last.op = "generate_embedding"
    /\ gemini_service
    /\ HitAt(last, 1)
    /\ last.provider_calls = <<>>
    /\ Truthy(last.result)
    /\ last.result.val = cache[generate_cache_key(last.texts[1], last.task_type)].value

\* C2: generate_embedding of an empty or whitespace-only text returns None
\* and makes no provider call, no cache read and no cache write
C2_BlankTextTouchesNothing ==
    (last.op = "generate_embedding" /\ BlankText(last.texts[1]))
        => (/\ last.result = None
            /\ ~last.raised
            /\ last.provider_calls = <<>>
            /\ last.cache_reads = <<>>
            /\ last.cache_writes = <<>>
            /\ cache = last.cache_before)

\* C2 witness: a whitespace-only, non-empty text was embedded on a service
\* with provider and a cache that holds entries
C2_Witness ==
    /\ last.op = "generate_embedding"
    /\ Len(last.texts[1]) > 0 /\ BlankText(last.texts[1])
    /\ gemini_service /\ cache_service
    /\ DOMAIN cache # {}
    /\ last.result = None

\* C3: when a non-blank text misses the cache and the provider call raises,
\* generate_embedding returns None, raises nothing and leaves the cache as
\* it was
C3_ProviderFailureIsAbsence ==
    (/\ last.op = "generate_embedding"
     /\ MissAt(last, 1)
     /\ Len(last.provider_calls) > 0
     /\ last.provider_calls[1].raises)
        => (/\ last.result = None
            /\ ~last.raised
            /\ last.cache_writes = <<>>
            /\ cache = last.cache_before)

\* C3 witness: the provider raised for a non-blank text while the cache held
\* other entries
C3_Witness ==
    /\ last.op = "generate_embedding"
    /\ cache_service
    /\ MissAt(last, 1)
    /\ Len(last.provider_calls) = 1
    /\ last.provider_calls[1].raises
    /\ DOMAIN cache # {}

\* the slot of input index i in the value call l should return, given the
\* vectors the provider returned (or, without a provider, the fallback)
ExpectedSlot(l, i) ==
    IF BlankText(l.texts[i]) THEN None
    ELSE IF HitAt(l, i)
    THEN Some(l.cache_before[generate_cache_key(l.texts[i], l.task_type)].value)
    ELSE LET j == CHOOSE k \in 1..Len(MissIndices(l, 1)) : MissIndices(l, 1)[k] = i
         IN  IF gemini_service
             THEN Some(l.provider_calls[1].returned[j])
             ELSE Some(DummyEmbeddings[l.texts[i]])

\* the batched provider call of call l, if there was one, returned
BatchAnswered(l) ==
    gemini_service =>
        (\A k \in 1..Len(l.provider_calls) : ~l.provider_calls[k].raises)

\* C4: generate_embeddings_batch returns a list as long as its input; slot i
\* is None for a blank text, the cached vector for a hit, and for a miss the
\* vector returned for that text (the j-th returned vector for the j-th miss)
C4_BatchSlotsFollowInput ==
    (last.op = "generate_embeddings_batch")
        => (/\ Len(last.results) = Len(last.texts)
            /\ BatchAnswered(last)
                   => \A i \in 1..Len(last.texts) :
                          last.results[i] = ExpectedSlot(last, i))

\* C4 witness: a batch with two misses for which the provider
\* returned different vectors
C4_Witness ==
    /\ last.op = "generate_embeddings_batch"
    /\ gemini_service
    /\ Len(MissIndices(last, 1)) = 2
    /\ Len(last.provider_calls) = 1 /\ ~last.provider_calls[1].raises
    /\ last.provider_calls[1].returned[1] # last.provider_calls[1].returned[2]
    /\ last.results[MissIndices(last, 1)[2]] = Some(last.provider_calls[1].returned[2])

\* C5: with a provider attached, generate_embeddings_batch makes exactly one
\* batched provider call carrying the missed texts in input order when a
\* non-blank text misses the cache, and no provider call otherwise
C5_OneBatchedProviderCall ==
    (last.op = "generate_embeddings_batch" /\ gemini_service)
        => IF Len(MissIndices(last, 1)) > 0
           THEN /\ Len(last.provider_calls) = 1
                /\ last.provider_calls[1].method = "generate_embeddings_batch"
                /\ last.provider_calls[1].texts = MissTexts(last)
                /\ last.provider_calls[1].task_type = last.task_type
           ELSE last.provider_calls = <<>>

\* C5 witness: a batch with two misses made one provider call for both
C5_Witness ==
    /\ last.op = "generate_embeddings_batch"
    /\ gemini_service /\ cache_service
    /\ Len(MissIndices(last, 1)) = 2
    /\ Len(last.provider_calls) = 1
    /\ Len(last.provider_calls[1].texts) = 2

\* C6: when the batched provider call raises, generate_embeddings_batch
\* raises nothing, every miss slot is None, every hit slot holds its cached
\* vector and nothing is written to the cache
C6_BatchFailureKeepsHits ==
    (/\ last.op = "generate_embeddings_batch"
     /\ Len(last.provider_calls) > 0
     /\ last.provider_calls[1].raises)
        => (/\ ~last.raised
            /\ Len(last.results) = Len(last.texts)
            /\ \A i \in 1..Len(last.texts) :
                   /\ MissAt(last, i) => last.results[i] = None
                   /\ HitAt(last, i) => last.results[i] = ExpectedSlot(last, i)
            /\ last.cache_writes = <<>>
            /\ cache = last.cache_before)

\* C6 witness: the provider raised for a batch that had a hit and a miss
C6_Witness ==
    /\ last.op = "generate_embeddings_batch"
    /\ Len(last.provider_calls) = 1 /\ last.provider_calls[1].raises
    /\ \E i, k \in 1..Len(last.texts) :
           /\ HitAt(last, i) /\ Truthy(last.results[i])
           /\ MissAt(last, k) /\ last.results[k] = None

\* C7: the cache key of one text differs between two task types, and a
\* generate_embedding call reads exactly the key of its own (task type, text):
\* an entry cached under another task type for the same text is not returned
C7_TaskTypesNeverCollide ==
    /\ \A text \in Texts : \A t1, t2 \in TaskTypes :
           generate_cache_key(text, t1) = generate_cache_key(text, t2) => t1 = t2
    /\ (last.op = "generate_embedding" /\ cache_service /\ ~BlankText(last.texts[1]))
           => /\ last.cache_reads
                     = <<generate_cache_key(last.texts[1], last.task_type)>>
              /\ (MissAt(last, 1) /\ gemini_service)
                     => Len(last.provider_calls) = 1

\* C7 witness: a retrieval_query call went to the provider although the
\* cache held the same text under retrieval_document
C7_Witness ==
    /\ last.op = "generate_embedding"
    /\ last.task_type = retrieval_query
    /\ gemini_service /\ cache_service
    /\ generate_cache_key(last.texts[1], retrieval_document) \in DOMAIN last.cache_before
    /\ generate_cache_key(last.texts[1], retrieval_query) \notin DOMAIN last.cache_before
    /\ Len(last.provider_calls) = 1

(***************************************************************************)
(* Properties of the diff analyzer                                         *)
(***************************************************************************)
\* the members of a list
Members(list) == {list[i] : i \in 1..Len(list)}

\* line i of the diff text is a '+++ b/<path>' header
IsNewFileHeader(i) ==
    /\ Len(diff_text[i]) >= 6
    /\ SubSeq(diff_text[i], 1, 6) = <<"+", "+", "+", " ", "b", "/">>

\* line i of the diff text is a hunk header
IsHunkHeader(i) == chunk_header_pattern(diff_text[i]).matched

\* the indices of the hunk headers of the diff text, in order
RECURSIVE HunkHeaders(_)
HunkHeaders(i) ==
    IF i > Len(diff_text) THEN <<>>
    ELSE IF IsHunkHeader(i) THEN <<i>> \o HunkHeaders(i + 1)
    ELSE HunkHeaders(i + 1)

\* C8: get_changed_files returns a list sorted ascending without duplicates,
\* and the file path of every chunk of parse_diff on the same text is a
\* member of it, or is empty with no '+++ b/<path>' header before the hunk
C8_ChangedFilesSortedAndCoverChunks ==
    (chunks.done /\ changed_files.done)
        => (/\ \A i \in 1..(Len(changed_files.val) - 1) :
                   StrLess(changed_files.val[i], changed_files.val[i + 1])
            /\ Len(chunks.val) = Len(HunkHeaders(1))
            /\ \A k \in 1..Len(chunks.val) :
                   \/ chunks.val[k].file_path \in Members(changed_files.val)
                   \/ /\ chunks.val[k].file_path = <<>>
                      /\ \A j \in 1..(HunkHeaders(1)[k] - 1) : ~IsNewFileHeader(j))

\* C8 witness: the text names y before x, the list is x, y and a chunk
\* belongs to x
C8_Witness ==
    /\ chunks.done /\ changed_files.done
    /\ diff_text[1] = <<"+", "+", "+", " ", "b", "/", "y">>
    /\ changed_files.val = << <<"x">>, <<"y">> >>
    /\ \E k \in 1..Len(chunks.val) : chunks.val[k].file_path = <<"x">>

\* the count a hunk header states: the number after the comma, 1 without it
StatedCount(group) == IF group.some THEN ToInt(group.val, 0) ELSE 1

\* the number of lines from index i on that begin with one of the signs
RECURSIVE CountSigns(_, _)
CountSigns(i, signs) ==
    IF i > Len(diff_text) THEN 0
    ELSE (IF Len(diff_text[i]) > 0 /\ diff_text[i][1] \in signs THEN 1 ELSE 0)
             + CountSigns(i + 1, signs)

\* the diff text is a well-formed diff of one hunk: file-header lines, one
\* hunk header at index h, then only added, removed and context lines (and
\* the empty last line a final newline leaves), as many as the header states
WellFormedSingleHunk(h) ==
    /\ h \in 1..Len(diff_text)
    /\ \A i \in 1..Len(diff_text) : IsHunkHeader(i) <=> i = h
    /\ \A i \in 1..(h - 1) :
           /\ Len(diff_text[i]) >= 4
           /\ SubSeq(diff_text[i], 1, 4) \in {<<"+", "+", "+", " ">>,
                                               <<"-", "-", "-", " ">>}
    /\ \A i \in (h + 1)..Len(diff_text) :
           \/ Len(diff_text[i]) > 0 /\ diff_text[i][1] \in {"+", "-", " "}
           \/ Len(diff_text[i]) = 0 /\ i = Len(diff_text) /\ i > h + 1
    /\ CountSigns(h + 1, {"+", " "})
           = StatedCount(chunk_header_pattern(diff_text[h]).group4)
    /\ CountSigns(h + 1, {"-", " "})
           = StatedCount(chunk_header_pattern(diff_text[h]).group2)

\* no line after index h begins with +++ or ---
NoTripleSign(h) ==
    \A i \in (h + 1)..Len(diff_text) :
        ~(/\ Len(diff_text[i]) >= 3
          /\ SubSeq(diff_text[i], 1, 3) \in {<<"+", "+", "+">>, <<"-", "-", "-">>})

\* C9 as stated, on the diffs none of whose hunk lines begins with +++ or
\* ---: for a well-formed diff of one hunk, the chunk has as many added
\* lines as the header's new count and as many removed lines as its old
\* count
C9_AddedEqualsNewCount ==
    \A h \in 1..Len(diff_text) :
        (chunks.done /\ WellFormedSingleHunk(h) /\ NoTripleSign(h))
            => (/\ Len(chunks.val) = 1
                /\ Len(chunks.val[1].added_lines) = chunks.val[1].new_count
                /\ Len(chunks.val[1].removed_lines) = chunks.val[1].old_count)

\* C9 amended: for a well-formed diff of one hunk none of whose hunk lines
\* begins with +++ or ---, the chunk carries the counts the header states,
\* its added and context lines together number the new count and its
\* removed and context lines together the old count
C9_LinesMatchHeaderCounts ==
    \A h \in 1..Len(diff_text) :
        (chunks.done /\ WellFormedSingleHunk(h) /\ NoTripleSign(h))
            => (/\ Len(chunks.val) = 1
                /\ chunks.val[1].new_count
                       = StatedCount(chunk_header_pattern(diff_text[h]).group4)
                /\ chunks.val[1].old_count
                       = StatedCount(chunk_header_pattern(diff_text[h]).group2)
                /\ Len(chunks.val[1].added_lines) + Len(chunks.val[1].context_lines)
                       = chunks.val[1].new_count
                /\ Len(chunks.val[1].removed_lines) + Len(chunks.val[1].context_lines)
                       = chunks.val[1].old_count)

\* C9 witness: a well-formed hunk with a file header, a context line and an
\* added line was parsed
C9_Witness ==
    /\ chunks.done
    /\ WellFormedSingleHunk(2) /\ NoTripleSign(2)
    /\ IsNewFileHeader(1)
    /\ Len(chunks.val) = 1
    /\ Len(chunks.val[1].context_lines) = 1
    /\ Len(chunks.val[1].added_lines) = 1
    /\ chunks.val[1].new_count = 2

FindCalled == rag_last.op = "find_similar_patterns"
StoreCalled == rag_last.op = "store_pattern"

\* the id store_pattern asks the index to write the last pattern under
StoredId == generate_pattern_id(rag_last.code, rag_last.repository_id, rag_last.file_path)

\* the index write of the last store_pattern call failed: the index raised
\* by itself, or it refused an id it already held
AddFailed ==
    \/ rag_last.fault = "raises"
    \/ HasId(rag_last.collection_before, StoredId) /\ rag_last.on_duplicate = "raise"

\* C11: when the index reports count() == 0, find_similar_patterns returns
\* the empty list and does not invoke the query operation of the index,
\* whatever the snippet, the repository id, the language and the limit
C11_EmptyIndexSkipsQuery ==
    (FindCalled /\ rag_last.fault # "count" /\ Count(rag_last.collection_before) = 0)
        => /\ ~rag_last.raised
           /\ rag_last.result = <<>>
           /\ \A i \in 1..Len(rag_last.index_calls) : rag_last.index_calls[i] # "query"

\* a search with a repository id and a positive limit ran on the empty index
C11_Witness ==
    /\ FindCalled
    /\ rag_last.fault = "none"
    /\ Count(rag_last.collection_before) = 0
    /\ Len(rag_last.repository_id) > 0
    /\ rag_last.limit > 0
    /\ rag_last.index_calls = <<"count">>

\* C12: find_similar_patterns never raises to its caller; when count or
\* query raised or the mapping of the results failed, it returns []
C12_FindNeverRaises ==
    FindCalled =>
        /\ ~rag_last.raised
        /\ rag_last.failed => rag_last.result = <<>>

\* the index answered a query on a non-empty index with a metadata list
\* shorter than its document list, and the mapping of the results failed
C12_Witness ==
    /\ FindCalled
    /\ rag_last.fault = "short_metadatas"
    /\ rag_last.index_calls = <<"count", "count", "query">>
    /\ rag_last.failed
    /\ rag_last.result = <<>>

\* C13: a failed index write makes store_pattern raise and leaves the index
\* as it was; a pattern id is returned only when the index holds the code
\* under that id
C13_StoreFailureRaises ==
    StoreCalled =>
        /\ AddFailed => (rag_last.raised /\ ~rag_last.pattern_id.some
                         /\ collection = rag_last.collection_before)
        /\ rag_last.pattern_id.some =>
              \E i \in 1..Len(collection) :
                  /\ collection[i].id = rag_last.pattern_id.val
                  /\ collection[i].document = rag_last.code

\* the index raised on the write of a pattern it did not hold yet, next to
\* another pattern, and store_pattern raised
C13_Witness ==
    /\ StoreCalled
    /\ rag_last.fault = "raises"
    /\ Len(rag_last.collection_before) > 0
    /\ ~HasId(rag_last.collection_before, StoredId)
    /\ rag_last.raised

\* C14: two store_pattern calls that returned, for the same repository id,
\* file path and code, returned the same id
C14_IdFromRepositoryPathCode ==
    \A a \in pattern_ids, b \in pattern_ids :
        (a.repository_id = b.repository_id /\ a.file_path = b.file_path
            /\ a.code = b.code) => a.id = b.id

\* the same code of the same file and repository was stored twice, with
\* different language, category, description and extra metadata, the second
\* time on an index of two patterns, and both calls returned an id
C14_Witness ==
    /\ StoreCalled
    /\ rag_last.pattern_id.some
    /\ Len(rag_last.collection_before) = 2
    /\ \E a \in pattern_ids, b \in pattern_ids :
          /\ a.repository_id = b.repository_id /\ a.file_path = b.file_path
          /\ a.code = b.code /\ a.language # b.language
          /\ a.code = rag_last.code /\ a.repository_id = rag_last.repository_id
          /\ b.language = rag_last.language

(***************************************************************************)
(* Properties of the pattern detector                                      *)
(***************************************************************************)
\* the rank of a severity: info < minor < major < critical
SeverityRank(severity) ==
    CASE severity = "info" -> 0
      [] severity = "minor" -> 1
      [] severity = "major" -> 2
      [] severity = "critical" -> 3

\* one match each of info, minor, major and critical, as in test_filter_by_severity
OneOfEachSeverity ==
    << PatternMatch("type_a", "info", "msg", 1, "code", 90),
       PatternMatch("type_a", "minor", "msg", 2, "code", 90),
       PatternMatch("type_b", "major", "msg", 3, "code", 90),
       PatternMatch("type_c", "critical", "msg", 4, "code", 90) >>

\* C15: filter_by_severity(matches, min_severity) returns, in their order,
\* exactly the matches whose severity rank is at least the rank of
\* min_severity; of one match each of info, minor, major and critical the
\* threshold major leaves the major and the critical one
C15_FilterKeepsRankAtLeast ==
    (pd_last.op = "filter_by_severity"
        /\ pd_last.min_severity \in {"info", "minor", "major", "critical"}) =>
        /\ pd_last.result =
              SelectSeq(pd_last.matches,
                        LAMBDA m : SeverityRank(m.severity)
                                       >= SeverityRank(pd_last.min_severity))
        /\ (pd_last.matches = OneOfEachSeverity /\ pd_last.min_severity = "major")
              => pd_last.result = SubSeq(OneOfEachSeverity, 3, 4)

\* the four matches of the test were filtered with the threshold major
C15_Witness ==
    /\ pd_last.op = "filter_by_severity"
    /\ pd_last.matches = OneOfEachSeverity
    /\ pd_last.min_severity = "major"
    /\ Len(pd_last.result) = 2

RECURSIVE SumOfSizes(_, _)
\* the sizes of the groups of the keys, added up
SumOfSizes(grouped, keys) ==
    IF keys = {} THEN 0
    ELSE LET k == CHOOSE k \in keys : TRUE
         IN  Len(grouped[k]) + SumOfSizes(grouped, keys \ {k})

\* C16: group_by_type(matches) partitions matches: the keys are the pattern
\* types that occur, the group of a key is the matches of that type in
\* their input order (so every match is in the one group of its type), no
\* group is empty and the sizes add up to the number of matches
C16_GroupsPartitionMatches ==
    pd_last.op = "group_by_type" =>
        LET grouped == pd_last.grouped
            matches == pd_last.matches
        IN  /\ DOMAIN grouped = {matches[i].pattern_type : i \in 1..Len(matches)}
            /\ \A k \in DOMAIN grouped :
                  /\ Len(grouped[k]) > 0
                  /\ grouped[k] = SelectSeq(matches, LAMBDA m : m.pattern_type = k)
            /\ SumOfSizes(grouped, DOMAIN grouped) = Len(matches)

\* four matches of two types, the types interleaved, were grouped
C16_Witness ==
    /\ pd_last.op = "group_by_type"
    /\ Len(pd_last.matches) = 4
    /\ pd_last.matches[1].pattern_type = "type_b"
    /\ pd_last.matches[2].pattern_type = "type_a"
    /\ pd_last.matches[2].line_number = 2
    /\ pd_last.matches[3].pattern_type = "type_b"
    /\ pd_last.matches[4].pattern_type = "type_a"
    /\ pd_last.matches[4].line_number = 1
    /\ DOMAIN pd_last.grouped = {"type_a", "type_b"}

\* two texts are equal when the case of their letters is ignored
SameIgnoringCase(a, b) ==
    Len(a) = Len(b) /\ \A i \in 1..Len(a) : LowerChar(a[i]) = LowerChar(b[i])

\* the language-specific rule set named by a language tag, if any
RuleSetOf(language) ==
    IF SameIgnoringCase(language, <<"j", "a", "v", "a">>) THEN <<"java">>
    ELSE IF SameIgnoringCase(language, <<"p", "y", "t", "h", "o", "n">>) THEN <<"python">>
    ELSE IF SameIgnoringCase(language, <<"j", "a", "v", "a", "s", "c", "r", "i", "p", "t">>)
              \/ SameIgnoringCase(language, <<"t", "y", "p", "e", "s", "c", "r", "i", "p", "t">>) THEN <<"javascript">>
    ELSE <<>>

\* C17: detect_patterns runs the universal rule set for every language tag,
\* after the one language-specific rule set the tag names when its case is
\* ignored, if it names one; the matches end with the universal matches,
\* and for a tag that names no rule set they are the universal matches
C17_UniversalRulesAlwaysRun ==
    pd_last.op = "detect_patterns" =>
        LET universal == detect_universal_patterns(pd_last.code)
            n == Len(pd_last.result)
        IN  /\ pd_last.detectors = RuleSetOf(pd_last.language) \o <<"universal">>
            /\ n >= Len(universal)
            /\ SubSeq(pd_last.result, n - Len(universal) + 1, n) = universal
            /\ RuleSetOf(pd_last.language) = <<>> => pd_last.result = universal

\* a text with a hardcoded password and a console.log call was scanned
\* under the tag go: the universal rules alone ran and found the password
C17_Witness ==
    /\ pd_last.op = "detect_patterns"
    /\ pd_last.language = <<"g", "o">>
    /\ pd_last.code = <<<<"c", "o", "n", "s", "o", "l", "e", ".", "l", "o", "g", "(", "x", ")">>, <<" ", "p", "a", "s", "s", "w", "o", "r", "d", " ", "=", " ", "\"", "x", "\"">>>>
    /\ pd_last.detectors = <<"universal">>
    /\ Len(pd_last.result) = 1
    /\ pd_last.result[1].pattern_type = "hardcoded_credentials"
    /\ pd_last.result[1].line_number = 2

(***************************************************************************)
(* Properties of filter_code_files                                         *)
(***************************************************************************)
\* text occurs in path / path ends with text
Occurs(text, path) ==
    \E i \in 1..Len(path), j \in 0..Len(path) : i <= j + 1 /\ SubSeq(path, i, j) = text
EndsIn(text, path) ==
    Len(text) <= Len(path) /\ SubSeq(path, Len(path) - Len(text) + 1, Len(path)) = text

\* a path holds no denylist marker and ends with an allow-listed extension
IsCodeFile(path) ==
    /\ \A n \in 1..Len(skip_patterns) : ~Occurs(skip_patterns[n], path)
    /\ \E ext \in code_extensions : EndsIn(ext, path)

\* C18: filter_code_files(paths) returns, in their order, exactly the paths
\* that hold no denylist marker and end with an allow-listed extension; it
\* returns no path that is not in its input, and it maps
\* ["pom.xml", "src/Main.java", "node_modules/x.js"] to ["src/Main.java"]
C18_CodeFilesFiltered ==
    code_files.done =>
        LET file_paths == code_files.val.file_paths
            filtered == code_files.val.filtered
        IN  /\ filtered = SelectSeq(file_paths, IsCodeFile)
            /\ \A k \in 1..Len(filtered) :
                  \E i \in 1..Len(file_paths) : file_paths[i] = filtered[k]
            /\ file_paths = <<<<"p", "o", "m", ".", "x", "m", "l">>, <<"s", "r", "c", "/", "M", "a", "i", "n", ".", "j", "a", "v", "a">>, <<"n", "o", "d", "e", "_", "m", "o", "d", "u", "l", "e", "s", "/", "x", ".", "j", "s">>>>
                  => filtered = <<<<"s", "r", "c", "/", "M", "a", "i", "n", ".", "j", "a", "v", "a">>>>

\* the three paths of the scenario were filtered
C18_Witness ==
    /\ code_files.done
    /\ code_files.val.file_paths = <<<<"p", "o", "m", ".", "x", "m", "l">>, <<"s", "r", "c", "/", "M", "a", "i", "n", ".", "j", "a", "v", "a">>, <<"n", "o", "d", "e", "_", "m", "o", "d", "u", "l", "e", "s", "/", "x", ".", "j", "s">>>>
    /\ code_files.val.filtered = <<<<"s", "r", "c", "/", "M", "a", "i", "n", ".", "j", "a", "v", "a">>>>

(***************************************************************************)
(* Properties of the fallback embedding                                    *)
(***************************************************************************)
\* the vector a call returns when nothing else uses the generator between
\* its seeding and its return, for every text and number of dimensions
DummyAlone ==
    [text \in DummyTexts, dimensions \in (1..MaxDimensions) \cup {Dimensions} |->
        generate_dummy_embedding(text, dimensions)]

\* C19: in a sequential run any two _generate_dummy_embedding calls with the
\* same text return the same vector, of 768 dimensions, whatever calls ran
\* in between and whatever state the generator started in; the vector is
\* the one the text alone determines
C19_SameTextSameVector ==
    \A i \in 1..Len(dummy_log) :
        /\ Len(dummy_log[i].embedding) = 768
        /\ dummy_log[i].embedding = DummyAlone[dummy_log[i].text, Dimensions]
        /\ \A j \in 1..Len(dummy_log) :
              dummy_log[i].text = dummy_log[j].text
                  => dummy_log[i].embedding = dummy_log[j].embedding

\* the same text was embedded before and after a call for another text,
\* which returned another vector
C19_Witness ==
    /\ Len(dummy_log) = 3
    /\ dummy_log[1].text = dummy_log[3].text
    /\ dummy_log[2].text # dummy_log[1].text
    /\ dummy_log[1].embedding = dummy_log[3].embedding
    /\ dummy_log[2].embedding # dummy_log[1].embedding

\* C20: when two threads are inside _generate_dummy_embedding for different
\* texts, each call returns the vector it returns when it runs alone,
\* however the seeding and drawing steps of the two interleave
C20_ThreadsDoNotInfluence ==
    \A c \in Callers :
        dummy_calls[c].pc = "done"
            => dummy_calls[c].result
                   = DummyAlone[dummy_calls[c].text, dummy_calls[c].dimensions]

(***************************************************************************)
(* Properties of parse_diff: line numbers and chunks                       *)
(***************************************************************************)
\* the index of the last line of the hunk whose header is line h: the line
\* before the next hunk header, or the last line of the text
HunkLast(h) ==
    LET later == {j \in (h + 1)..Len(diff_text) : IsHunkHeader(j)}
    IN  IF later = {} THEN Len(diff_text)
        ELSE (CHOOSE j \in later : \A l \in later : j <= l) - 1

\* what line i of the diff text is inside a hunk: "+" an added line (one
\* plus, not three), "-" a removed line, " " a context line, "" any other
LineKind(i) ==
    LET line == diff_text[i]
        three == IF Len(line) >= 3 THEN SubSeq(line, 1, 3) ELSE <<>>
    IN  IF Len(line) = 0 THEN ""
        ELSE IF line[1] = "+" /\ three # <<"+", "+", "+">> THEN "+"
        ELSE IF line[1] = "-" /\ three # <<"-", "-", "-">> THEN "-"
        ELSE IF line[1] = " " THEN " "
        ELSE ""

\* the indices of the lines of one kind from line i to line end, in order
RECURSIVE KindIndices(_, _, _)
KindIndices(i, end, kind) ==
    IF i > end THEN <<>>
    ELSE (IF LineKind(i) = kind THEN <<i>> ELSE <<>>)
             \o KindIndices(i + 1, end, kind)

\* the number of lines of the given kinds after the header h and before line i
KindsBefore(h, i, kinds) ==
    Cardinality({j \in (h + 1)..(i - 1) : LineKind(j) \in kinds})

\* the entries of a list of (line number, content) pairs are numbered as the
\* lines at the given indices of the hunk of header h, counted from start
\* over the lines of the given kinds, with strictly increasing numbers
NumberedFrom(entries, indices, h, start, kinds) ==
    /\ Len(entries) = Len(indices)
    /\ \A n \in 1..Len(entries) :
           entries[n][1] = start + KindsBefore(h, indices[n], kinds)
    /\ \A n \in 1..(Len(entries) - 1) : entries[n][1] < entries[n + 1][1]

\* C21: in every chunk parse_diff returns, the k-th added entry is numbered
\* newStart plus the number of added and context lines before it in the
\* hunk, the k-th removed entry oldStart plus the number of removed and
\* context lines before it, and the numbers of the added entries and of the
\* removed entries are strictly increasing
C21_EntriesNumberedByCounters ==
    chunks.done
        => (/\ Len(chunks.val) = Len(HunkHeaders(1))
            /\ \A k \in 1..Len(chunks.val) :
                   LET h == HunkHeaders(1)[k]
                       m == chunk_header_pattern(diff_text[h])
                   IN  /\ NumberedFrom(chunks.val[k].added_lines,
                                       KindIndices(h + 1, HunkLast(h), "+"),
                                       h, ToInt(m.group3.val, 0), {"+", " "})
                       /\ NumberedFrom(chunks.val[k].removed_lines,
                                       KindIndices(h + 1, HunkLast(h), "-"),
                                       h, ToInt(m.group1.val, 0), {"-", " "}))

\* C21 witness: a hunk starting at line 3 of both files with a removed line,
\* a context line and an added line: the removed entry is at 3, the added
\* entry at 4
C21_Witness ==
    /\ chunks.done
    /\ Len(chunks.val) = 1
    /\ chunks.val[1].removed_lines = << <<3, <<"a">> >> >>
    /\ Len(chunks.val[1].context_lines) = 1
    /\ chunks.val[1].added_lines = << <<4, <<"a">> >> >>

\* the line numbers an entry carries: all of it but its content, which is
\* the last component
EntryNumbers(entry) == {entry[j] : j \in 1..(Len(entry) - 1)}

\* C22: in every chunk parse_diff returns, the entry of the k-th context
\* line of the hunk carries the old-file line number and the new-file line
\* number current at that line: oldStart plus the removed and context lines
\* before it, and newStart plus the added and context lines before it
C22_ContextCarriesBothNumbers ==
    chunks.done
        => \A k \in 1..Len(chunks.val) :
               LET h == HunkHeaders(1)[k]
                   m == chunk_header_pattern(diff_text[h])
                   indices == KindIndices(h + 1, HunkLast(h), " ")
                   entries == chunks.val[k].context_lines
               IN  /\ Len(entries) = Len(indices)
                   /\ \A n \in 1..Len(entries) :
                          /\ (ToInt(m.group3.val, 0)
                                  + KindsBefore(h, indices[n], {"+", " "}))
                                 \in EntryNumbers(entries[n])
                          /\ (ToInt(m.group1.val, 0)
                                  + KindsBefore(h, indices[n], {"-", " "}))
                                 \in EntryNumbers(entries[n])

\* the path of the last '+++ b/<path>' line before line h, empty if none
PathBefore(h) ==
    LET headers == {j \in 1..(h - 1) : IsNewFileHeader(j)}
    IN  IF headers = {} THEN <<>>
        ELSE LET j == CHOOSE x \in headers : \A y \in headers : y <= x
             IN  SubSeq(diff_text[j], 7, Len(diff_text[j]))

\* C23: parse_diff returns one chunk per hunk-header line, in the order of
\* the headers; the k-th chunk has the starts and counts of the k-th header
\* (a count of 1 where the header omits it) and the path of the last
\* '+++ b/<path>' line before that header, empty if there is none; so a text
\* without a well-formed header, the empty text among them, yields no chunk
C23_OneChunkPerHeader ==
    chunks.done
        => (/\ Len(chunks.val) = Len(HunkHeaders(1))
            /\ \A k \in 1..Len(chunks.val) :
                   LET h == HunkHeaders(1)[k]
                       m == chunk_header_pattern(diff_text[h])
                       c == chunks.val[k]
                   IN  /\ c.file_path = PathBefore(h)
                       /\ c.old_start = ToInt(m.group1.val, 0)
                       /\ c.old_count = StatedCount(m.group2)
                       /\ c.new_start = ToInt(m.group3.val, 0)
                       /\ c.new_count = StatedCount(m.group4))

\* C23 witness: two hunks of two files, the first header without its old
\* count, the second without its new count; each chunk has its own path
C23_Witness ==
    /\ chunks.done
    /\ Len(chunks.val) = 2
    /\ chunks.val[1].file_path = <<"y">>
    /\ chunks.val[1].old_count = 1 /\ chunks.val[1].new_count = 2
    /\ chunks.val[2].file_path = <<"x">>
    /\ chunks.val[2].old_count = 0 /\ chunks.val[2].new_count = 1

(***************************************************************************)
(* Properties of the order of detect_patterns                              *)
(***************************************************************************)
\* the pattern identifiers in the order their rules run: the rules of the
\* three language sets, then the universal rules
RuleOrder ==
    << "empty_catch", "catch_generic_exception", "console_logging",
       "bare_except", "print_statement", "mutable_default_argument",
       "console_log", "loose_equality", "var_keyword",
       "hardcoded_credentials", "todo_comment" >>

\* the place of a pattern identifier in the rule order
RuleRank(pattern_type) ==
    CHOOSE n \in 1..Len(RuleOrder) : RuleOrder[n] = pattern_type

\* the matches of the last detect_patterns call follow the rule order, the
\* language-specific rules before the universal ones
RuleOrderKept ==
    \A a, b \in 1..Len(pd_last.result) :
        a < b => RuleRank(pd_last.result[a].pattern_type)
                     <= RuleRank(pd_last.result[b].pattern_type)

\* C24: the matches detect_patterns returns are ordered by rule and then by
\* line: the pattern identifiers follow the rule order, language-specific
\* before universal, and among the matches of one pattern identifier the
\* line numbers are non-decreasing
C24_OrderedByRuleThenLine ==
    pd_last.op = "detect_patterns"
        => (/\ RuleOrderKept
            /\ \A a, b \in 1..Len(pd_last.result) :
                   (/\ a < b
                    /\ pd_last.result[a].pattern_type = pd_last.result[b].pattern_type)
                       => pd_last.result[a].line_number
                              <= pd_last.result[b].line_number)

(***************************************************************************)
(* Properties of find_similar_patterns among concurrent stores             *)
(***************************************************************************)
\* C25: a find_similar_patterns call that found the index non-empty at its
\* size check issues exactly one query, asking for min(limit, the size of
\* the index it read for the query) results, and the list a call returns
\* never has more than limit entries, whatever was stored into the index
\* between its steps
C25_OneQueryAtMostLimit ==
    find_call.pc = "done"
        => (/\ Len(find_call.result) <= find_call.limit
            /\ find_call.size_checked > 0
                   => (/\ Len(find_call.queries) = 1
                       /\ find_call.queries[1].n_results
                              = (IF find_call.limit < find_call.size_counted
                                 THEN find_call.limit
                                 ELSE find_call.size_counted)))

\* C25 witness: a pattern was stored after the size check and before the
\* query, so that the index held two patterns of the language asked for;
\* the call asked for one result and returned one
C25_Witness ==
    /\ find_call.pc = "done"
    /\ find_call.limit = 1
    /\ find_call.size_checked = 1
    /\ Len(find_call.queries) = 1
    /\ find_call.queries[1].index_size = 2
    /\ Len(SelectSeq(collection, LAMBDA e : e.metadata.language = find_call.language)) = 2
    /\ Len(find_call.result) = 1

(***************************************************************************)
(* Properties of the fallback in the service instances                     *)
(***************************************************************************)
\* line 273: the process-wide instance, EmbeddingService() with the default
\* arguments: no provider and no cache attached
embedding_service == [gemini_service |-> FALSE, cache_service |-> FALSE]

\* the service of this state is the process-wide instance
IsProcessWideInstance ==
    /\ gemini_service = embedding_service.gemini_service
    /\ cache_service = embedding_service.cache_service

\* the last call obtained the vector of its i-th text from the fallback
\* generator: the text is not blank, the cache did not answer for it, no
\* provider was called and the vector is the one _generate_dummy_embedding
\* computes for the text
FallbackAt(i) ==
    /\ i \in 1..Len(last.texts)
    /\ ~BlankText(last.texts[i])
    /\ ~HitAt(last, i)
    /\ last.provider_calls = <<>>
    /\ (IF last.op = "generate_embedding" THEN last.result ELSE last.results[i])
           = Some(DummyEmbeddings[last.texts[i]])

\* C26: no generate_embedding or generate_embeddings_batch call on the
\* process-wide instance, and none on an instance with a provider attached,
\* obtains a vector from the fallback generator
C26_FallbackNeverReached ==
    (last.op # "none" /\ (IsProcessWideInstance \/ gemini_service))
        => \A i \in 1..Len(last.texts) : ~FallbackAt(i)

(***************************************************************************)
(* Properties of store_accepted_suggestion                                 *)
(***************************************************************************)
\* C27: when the index write fails while store_accepted_suggestion stores
\* the accepted code as a pattern, the call raises to its caller
C27_AcceptFailureRaises ==
    (rag_last.op = "store_accepted_suggestion" /\ rag_last.failed)
        => rag_last.raised

(***************************************************************************)
(* Properties of the throttle of GeminiService                             *)
(***************************************************************************)
\* C28: any two consecutive generate_content calls of the service are at
\* least a second apart, and request_count is the number of calls that
\* passed the throttle, however the rate-limit steps of the callers
\* interleave at the await
C28_RequestsOneSecondApart ==
    /\ \A i \in 1..(Len(requests) - 1) :
           requests[i + 1] - requests[i] >= MinInterval
    /\ request_count = Len(requests)

(***************************************************************************)
(* Properties of the metadata store_pattern writes                         *)
(***************************************************************************)
\* the last call was a store_pattern that wrote an entry to the index
StoreWrote ==
    /\ StoreCalled
    /\ ~rag_last.raised
    /\ Len(collection) = Len(rag_last.collection_before) + 1

\* C29: after a store_pattern call that wrote its entry, the metadata of the
\* entry has repository_id, file_path, language, category and description
\* equal to the arguments of the call, whatever the extra metadata; so the
\* entry matches the filter of find_similar_patterns for the repository and
\* language of the call, and get_repository_stats counts it for the
\* repository
C29_MetadataEqualsArguments ==
    StoreWrote
        => LET written == collection[Len(collection)].metadata
               v == CHOOSE x \in StoreVariants : x.language = rag_last.language
           IN  /\ written.repository_id = rag_last.repository_id
               /\ written.file_path = rag_last.file_path
               /\ written.language = rag_last.language
               /\ written.category = v.category
               /\ written.description = v.description
               /\ WhereMatches(collection[Len(collection)],
                               Where(rag_last.repository_id, rag_last.language))
               /\ get_repository_stats(rag_last.repository_id, collection).total_patterns
                      = get_repository_stats(rag_last.repository_id,
                                             rag_last.collection_before).total_patterns + 1

(***************************************************************************)
(* Properties of the cache under concurrent calls                          *)
(***************************************************************************)
\* the step writes the entry under key k: the key is new, or what it holds
\* has changed
Written(k) == k \notin DOMAIN cache \/ cache'[k] # cache[k]

\* thread c has moved in the step, and the provider returned `value` to it
\* for a text whose key (with the task type of the call) is k
ProvidedFor(c, k, value) ==
    LET call == embed_calls[c]
    IN  /\ embed_calls'[c] # call
        /\ call.provided.some
        /\ \E j \in 1..Len(call.uncached_texts) :
               /\ j <= Len(call.provided.val)
               /\ k = generate_cache_key(call.uncached_texts[j], call.task_type)
               /\ value = call.provided.val[j]

\* C30: under any interleaving of generate_embedding and
\* generate_embeddings_batch calls on a shared cache, every entry written to
\* the cache sits under the key of a (task type, text) pair of the writing
\* call and holds a non-empty vector that the provider returned for that
\* text and task type, with a TTL of 86400 seconds
C30_CacheHoldsProviderVectors ==
    [][\A k \in DOMAIN cache' :
           Written(k) =>
               /\ \E c \in Callers : ProvidedFor(c, k, cache'[k].value)
               /\ Len(cache'[k].value) > 0
               /\ cache'[k].ttl = CacheTtl]_vars

====
